---- MODULE Spec2Model ----
(***************************************************************************)
(* SENTINEL orbital engine: the Keplerian propagator, the conjunction      *)
(* detector, the maneuver planner and projection and the population        *)
(* generator (src/services/orbitalPhysics.ts), and the greedy debris       *)
(* clustering of DebrisField (src/components/EarthScene.tsx).              *)
(*                                                                         *)
(* Numbers.  The code computes in IEEE doubles; the model computes the     *)
(* same formulas exactly, over these representations:                      *)
(*   lengths        integer kilometres;                                    *)
(*   angles         integer quarter turns (1 = pi/2), so that cos and sin  *)
(*                  take the values -1, 0, 1 (CosQ, SinQ);                 *)
(*   Math.random()  in checkConjunctions, k / RandDen with k in            *)
(*                  0 .. RandDen - 1; in calculateManeuver, k / 1024; in   *)
(*                  generateMockObjects an exact fraction of [0, 1);       *)
(*   eccentricities, probabilities, times to impact, scene coordinates:    *)
(*                  exact fractions [num, den] in lowest terms (Frac).     *)
(* The propagator is exact on the inputs the model enumerates: either      *)
(* e = 0 or the mean anomaly is a multiple of pi (so e*sin(E) = 0 and the  *)
(* Kepler iteration stays at E = M), and a*(1 - e*cos(E)) is an integer.   *)
(* Every propagated position then lies on a coordinate axis, and two       *)
(* positions are either collinear (an integer distance) or at least        *)
(* sqrt(2) orbital radii apart, far beyond both distance thresholds, so    *)
(* the floor in ISqrt never decides a comparison.                          *)
(* The passes of the host (App) are over generated populations at the      *)
(* simulation times of its frames, where the positions are not rational:   *)
(* they are computed in fixed point with twelve decimal places             *)
(* (PositionAtTime, CheckConjunctionsAt).                                  *)
(***************************************************************************)
EXTENDS Integers, Sequences, FiniteSets, Bags, TLC

VARIABLES
    objects,    \* checkConjunctions: the objects argument
    time,       \* checkConjunctions / DebrisField / getPositionAtTime: the time argument
    draws,      \* the Math.random() outcomes the call consumed, per close pair
    result,     \* the array checkConjunctions returned
    pc,         \* the position of the run: "ready", then what has been called
    fieldObjects, \* DebrisField: the objects prop
    groups,     \* DebrisField: the successive values of the local `group`, as indices
    clusters,   \* DebrisField: the clusters array of the memo
    singles,    \* DebrisField: the singles array of the memo
    target,     \* getPostManeuverObject / getPositionAtTime: the obj argument as passed
    targetAfter, \* the object obj refers to when getPostManeuverObject has returned
    selected,   \* calculateManeuver: the conjunction argument
    maneuver,   \* the maneuver: returned by calculateManeuver or built by the caller
    predicted,  \* the object getPostManeuverObject returned
    position,   \* the vector getPositionAtTime returned
    locals,     \* getPositionAtTime: its locals M, E, v, r
    outcome,    \* how the last call ended: "returned" or "threw"
    population, \* generateMockObjects: the objects array
    sample,     \* checkConjunctions: dist, one jitter draw, and the mlProb and risk they give
    alerts,     \* App: the alerts state
    selectedAlert, \* App: the selectedAlert state, <<>> for null, <<alert>> otherwise
    appManeuver, \* App: the maneuver state, <<>> for null, <<plan>> otherwise
    plannedFor, \* the alert the plan in appManeuver was computed from (history)
    timeouts,   \* the pending setTimeout callbacks, oldest first: the alert each captured
    pending,    \* App: the state updates queued since the last render
    effects,    \* App: the polling effect is to run again after the last commit
    polling,    \* App: <<>> or the objects and time the armed interval's callback closed over
    frameIn,    \* milliseconds until the next animation frame
    intervalIn, \* milliseconds until the callback of the armed interval
    sincePass   \* milliseconds since the last call of checkConjunctions by the host (history)

vars == <<objects, time, draws, result, pc, fieldObjects, groups, clusters, singles,
          target, targetAfter, selected, maneuver, predicted, position, locals,
          outcome, population, sample, alerts, selectedAlert, appManeuver,
          plannedFor, timeouts, pending, effects, polling, frameIn, intervalIn,
          sincePass>>

detectorVars == <<objects, draws, result>>
fieldVars == <<fieldObjects, groups, clusters, singles>>
maneuverVars == <<target, targetAfter, selected, maneuver, predicted>>
propagatorVars == <<position, locals>>
hostVars == <<alerts, selectedAlert, appManeuver, plannedFor, timeouts, pending,
              effects, polling, frameIn, intervalIn, sincePass>>

----------------------------------------------------------------------------
(* Bounds of the model *)

MaxObjects == 5
MaxDebrisField == 3
\* Math.random() is drawn from the multiples of 1/RandDen in [0, 1); the
\* eighths are doubles, so the code can be given these very outcomes
RandDen == 8

----------------------------------------------------------------------------
(* Exact arithmetic *)

Abs(n) == IF n < 0 THEN -n ELSE n

Min(a, b) == IF a <= b THEN a ELSE b

RECURSIVE GCD(_, _)
GCD(a, b) == IF b = 0 THEN a ELSE GCD(b, a % b)

\* the fraction n/d (d # 0) in lowest terms with a positive denominator
Frac(n, d) ==
    LET g == GCD(Abs(n), Abs(d))
        s == IF d < 0 THEN -1 ELSE 1
    IN  [num |-> (s * n) \div g, den |-> (s * d) \div g]

FMul(p, q) == Frac(p.num * q.num, p.den * q.den)
FAdd(p, q) == Frac(p.num * q.den + q.num * p.den, p.den * q.den)
FSub(p, q) == Frac(p.num * q.den - q.num * p.den, p.den * q.den)
FLt(p, q) == p.num * q.den < q.num * p.den
FLe(p, q) == p.num * q.den <= q.num * p.den
FMin(p, q) == IF FLe(p, q) THEN p ELSE q

RECURSIVE ISqrtIn(_, _, _)
ISqrtIn(n, lo, hi) ==
    IF lo >= hi THEN lo
    ELSE LET mid == (lo + hi + 1) \div 2
         IN  IF mid * mid <= n THEN ISqrtIn(n, mid, hi) ELSE ISqrtIn(n, lo, mid - 1)

\* floor of the square root (Math.sqrt on a perfect square is exact)
ISqrt(n) == ISqrtIn(n, 0, 46340)

\* Math.cos and Math.sin at q quarter turns
CosQ(q) == CASE q % 4 = 0 -> 1 [] q % 4 = 1 -> 0 [] q % 4 = 2 -> -1 [] q % 4 = 3 -> 0
SinQ(q) == CASE q % 4 = 0 -> 0 [] q % 4 = 1 -> 1 [] q % 4 = 2 -> 0 [] q % 4 = 3 -> -1

----------------------------------------------------------------------------
(* Constants of the program *)

KeplerIterations == 5
ProximityKm == 800
CloseRangeKm == 500
MaxAlerts == 5

LOW == "LOW"
MEDIUM == "MEDIUM"
HIGH == "HIGH"

JitterBaseLow == Frac(6, 10)
JitterBase == Frac(8, 10)
JitterSpan == Frac(4, 10)
ProbCap == Frac(99, 100)
HighAbove == Frac(7, 10)
MediumAbove == Frac(3, 10)
HorizonSeconds == 72 * 60 * 60

----------------------------------------------------------------------------
(* Propagator: getPositionAtTime *)

\* E = M + e * Math.sin(E), k times; e * sin(E) is 0 on the inputs of the model
RECURSIVE KeplerSolve(_, _, _, _)
KeplerSolve(M, e, E, k) ==
    IF k = 0 THEN E ELSE KeplerSolve(M, e, M + e.num * SinQ(E), k - 1)

\* 2 * atan2(sqrt(1+e)*sin(E/2), sqrt(1-e)*cos(E/2)): atan2 returns the half
\* angle in (-pi, pi], so the result is E brought into (-2 pi, 2 pi]
TrueAnomaly(E) == ((E + 3) % 8) - 3

\* a * (1 - e * Math.cos(E)), an integer on the inputs of the model
Radius(a, e, E) ==
    LET r == FMul(Frac(a, 1), FSub(Frac(1, 1), FMul(e, Frac(CosQ(E), 1))))
    IN  r.num \div r.den

\* the locals M, E, v and r of getPositionAtTime
PropagationLocals(obj, t) ==
    LET el == obj.elements
        M == el.M0 + el.n * t
        E == KeplerSolve(M, el.e, M, KeplerIterations)
    IN  [M |-> M, E |-> E, v |-> TrueAnomaly(E), r |-> Radius(el.a, el.e, E)]

\* the unused locals x, y, z (scaled by x_orb = r * cos(v)) are returned
GetPositionAtTimeOrbitalPlane(obj, t) ==
    LET el == obj.elements
        l == PropagationLocals(obj, t)
        u == el.w + l.v
        x_orb == l.r * CosQ(l.v)
    IN  [x |-> x_orb * (CosQ(el.O) * CosQ(u) - SinQ(el.O) * SinQ(u) * CosQ(el.i)),
         y |-> x_orb * (SinQ(el.O) * CosQ(u) + CosQ(el.O) * SinQ(u) * CosQ(el.i)),
         z |-> x_orb * (SinQ(el.i) * SinQ(u))]

GetPositionAtTime(obj, t) ==
    LET el == obj.elements
        l == PropagationLocals(obj, t)
        r == l.r
        u == el.w + l.v
    IN  [x |-> r * (CosQ(el.O) * CosQ(u) - SinQ(el.O) * SinQ(u) * CosQ(el.i)),
         y |-> r * (SinQ(el.O) * CosQ(u) + CosQ(el.O) * SinQ(u) * CosQ(el.i)),
         z |-> r * (SinQ(el.i) * SinQ(u))]

\* the inputs on which the integer propagator above is exact
Propagable(obj, t) ==
    LET el == obj.elements
        M == el.M0 + el.n * t
    IN  /\ (IF el.e.num = 0 THEN TRUE ELSE SinQ(M) = 0)
        /\ FMul(Frac(el.a, 1), FSub(Frac(1, 1), FMul(el.e, Frac(CosQ(M), 1)))).den = 1

----------------------------------------------------------------------------
(* Conjunction detector: checkConjunctions *)

Distance(p, q) ==
    ISqrt((p.x - q.x) * (p.x - q.x) + (p.y - q.y) * (p.y - q.y)
            + (p.z - q.z) * (p.z - q.z))

\* mutant of DebrisOf: the filter on the type is lost
DebrisOfUnfiltered(objs) == objs

SatsOf(objs) == SelectSeq(objs, LAMBDA o : o.type = "SATELLITE")

DebrisOf(objs) == SelectSeq(objs, LAMBDA o : o.type = "DEBRIS")

\* the (sat, deb) pairs in the order the nested forEach visits them
PairsOf(objs) ==
    LET s == SatsOf(objs)
        d == DebrisOf(objs)
    IN  [k \in 1 .. (Len(s) * Len(d)) |->
            [sat |-> s[((k - 1) \div Len(d)) + 1],
             deb |-> d[((k - 1) % Len(d)) + 1]]]

PairDistance(pr, t) ==
    Distance(GetPositionAtTime(pr.sat, t), GetPositionAtTime(pr.deb, t))

\* mutant of IsClose: dist <= 800 in place of dist < 800
IsCloseInclusive(dist) == dist <= ProximityKm

IsClose(dist) == dist < ProximityKm

\* mutant of BaseProb: the quotient inverted, Math.min(1, dist / 500)
BaseProbInverted(dist) == FMin(Frac(1, 1), Frac(dist, CloseRangeKm))

\* Math.min(1, 500 / dist); 500 / 0 is Infinity
BaseProb(dist) ==
    IF dist = 0 THEN Frac(1, 1) ELSE FMin(Frac(1, 1), Frac(CloseRangeKm, dist))

\* mutant of MlProb: the clamp to 0.99 is lost
MlProbUncapped(dist, rnd) ==
    FMul(BaseProb(dist), FAdd(JitterBase, FMul(Frac(rnd, RandDen), JitterSpan)))

\* Math.min(0.99, baseProb * (0.8 + Math.random() * 0.4)), Math.random() = rnd/RandDen.
\* The code computes in doubles and its value is the exact one up to rounding.
\* For rnd/RandDen an eighth and dist a whole number of kilometres the exact
\* value meets a threshold of RiskOf at 750 km with 5/8 only, where the
\* doubles give exactly 0.7 as well, and it never meets the cap 0.99 from above
MlProb(dist, rnd) ==
    FMin(ProbCap,
         FMul(BaseProb(dist), FAdd(JitterBase, FMul(Frac(rnd, RandDen), JitterSpan))))

\* mutant of RiskOf: mlProb >= 0.7 in place of mlProb > 0.7
RiskOfInclusive(mlProb) ==
    IF FLe(HighAbove, mlProb) THEN HIGH
    ELSE IF FLt(MediumAbove, mlProb) THEN MEDIUM
    ELSE LOW

RiskOf(mlProb) ==
    IF FLt(HighAbove, mlProb) THEN HIGH
    ELSE IF FLt(MediumAbove, mlProb) THEN MEDIUM
    ELSE LOW

ConjunctionId(sat, deb, t) == sat.id \o "-" \o deb.id \o "-" \o ToString(t)

\* mutant of MkConjunction: probability and timeToImpact take each other's value
MkConjunctionSwapped(sat, deb, t, dist, mlProb, risk, rnd) ==
    [id |-> ConjunctionId(sat, deb, t),
     objectA |-> sat.name,
     objectB |-> deb.name,
     timeToImpact |-> mlProb,
     probability |-> Frac(HorizonSeconds * rnd, RandDen),
     riskLevel |-> risk,
     missDistance |-> dist]

MkConjunction(sat, deb, t, dist, mlProb, risk, rnd) ==
    [id |-> ConjunctionId(sat, deb, t),
     objectA |-> sat.name,
     objectB |-> deb.name,
     timeToImpact |-> Frac(HorizonSeconds * rnd, RandDen),
     probability |-> mlProb,
     riskLevel |-> risk,
     missDistance |-> dist]

\* the body of the inner forEach for one pair within the proximity threshold
PushIfRisky(conjs, pr, t, draw) ==
    LET dist == PairDistance(pr, t)
        mlProb == MlProb(dist, draw.jitter)
        risk == RiskOf(mlProb)
    IN  IF risk # LOW
        THEN Append(conjs, MkConjunction(pr.sat, pr.deb, t, dist, mlProb, risk, draw.tti))
        ELSE conjs

ClosePairs(objs, t) ==
    SelectSeq(PairsOf(objs), LAMBDA pr : IsClose(PairDistance(pr, t)))

RECURSIVE ScanFrom(_, _, _, _, _)
ScanFrom(conjs, close, k, t, drawSeq) ==
    IF k > Len(close) THEN conjs
    ELSE ScanFrom(PushIfRisky(conjs, close[k], t, drawSeq[k]), close, k + 1, t, drawSeq)

\* the conjunctions array when the nested loops end
Candidates(objs, t, drawSeq) == ScanFrom(<<>>, ClosePairs(objs, t), 1, t, drawSeq)

\* mutant of ComesBefore: the comparator a.probability - b.probability
ComesBeforeAscending(a, b) == FLt(a.probability, b.probability)

\* comparator (a, b) => b.probability - a.probability: a negative value puts a first
ComesBefore(a, b) == FLt(b.probability, a.probability)

RECURSIVE InsertSorted(_, _)
InsertSorted(sorted, c) ==
    IF sorted = <<>> THEN <<c>>
    ELSE IF ComesBefore(c, sorted[Len(sorted)])
         THEN Append(InsertSorted(SubSeq(sorted, 1, Len(sorted) - 1), c), sorted[Len(sorted)])
         ELSE Append(sorted, c)

RECURSIVE SortFrom(_, _, _)
SortFrom(sorted, s, k) ==
    IF k > Len(s) THEN sorted ELSE SortFrom(InsertSorted(sorted, s[k]), s, k + 1)

\* Array.prototype.sort with the comparator above (a stable sort)
SortByProbability(s) == SortFrom(<<>>, s, 1)

\* mutant of TopAlerts: the last five, slice(-5)
TopAlertsFromEnd(s) == SubSeq(s, Len(s) - Min(MaxAlerts, Len(s)) + 1, Len(s))

\* slice(0, 5)
TopAlerts(s) == SubSeq(s, 1, Min(MaxAlerts, Len(s)))

CheckConjunctions(objs, t, drawSeq) ==
    TopAlerts(SortByProbability(Candidates(objs, t, drawSeq)))

----------------------------------------------------------------------------
(* Debris clustering: the memo of DebrisField *)

\* SCENE_SCALE = 1 / 637.1
SceneScale == Frac(10, 6371)

\* CLUSTER_THRESHOLD = 2.5
ClusterThreshold == Frac(25, 10)

\* new THREE.Vector3(pos.x * s, pos.y * s, pos.z * s): the vector unit * (x, y, z)
ScaledVector(pos, s) == [x |-> pos.x, y |-> pos.y, z |-> pos.z, unit |-> s]

\* objects.map(obj => ({ obj, vec }))
DataOf(objs, t) ==
    [k \in 1 .. Len(objs) |->
        [obj |-> objs[k], vec |-> ScaledVector(GetPositionAtTime(objs[k], t), SceneScale)]]

\* Vector3.distanceTo, for two vectors of the same unit
DistanceTo(u, v) == FMul(Frac(Distance(u, v), 1), u.unit)

WithinThreshold(u, v) == FLt(DistanceTo(u, v), ClusterThreshold)

\* mutant of GatherFrom: the test processed.has(j) is lost
RECURSIVE GatherNoSkip(_, _, _, _, _)
GatherNoSkip(d, i, j, group, processed) ==
    IF j > Len(d) THEN [group |-> group, processed |-> processed]
    ELSE IF WithinThreshold(d[i].vec, d[j].vec)
         THEN GatherNoSkip(d, i, j + 1, Append(group, j), processed \cup {j})
         ELSE GatherNoSkip(d, i, j + 1, group, processed)

\* mutant of GatherFrom: the distance is taken to the last member, not to the seed
RECURSIVE GatherChained(_, _, _, _, _)
GatherChained(d, i, j, group, processed) ==
    IF j > Len(d) THEN [group |-> group, processed |-> processed]
    ELSE IF j \in processed THEN GatherChained(d, i, j + 1, group, processed)
    ELSE IF WithinThreshold(d[group[Len(group)]].vec, d[j].vec)
         THEN GatherChained(d, i, j + 1, Append(group, j), processed \cup {j})
         ELSE GatherChained(d, i, j + 1, group, processed)

\* the inner for loop from index j on: the group of seed i and the processed set
RECURSIVE GatherFrom(_, _, _, _, _)
GatherFrom(d, i, j, group, processed) ==
    IF j > Len(d) THEN [group |-> group, processed |-> processed]
    ELSE IF j \in processed THEN GatherFrom(d, i, j + 1, group, processed)
    ELSE IF WithinThreshold(d[i].vec, d[j].vec)
         THEN GatherFrom(d, i, j + 1, Append(group, j), processed \cup {j})
         ELSE GatherFrom(d, i, j + 1, group, processed)

RECURSIVE SumFrom(_, _, _, _)
SumFrom(d, group, k, acc) ==
    IF k > Len(group) THEN acc
    ELSE LET v == d[group[k]].vec
         IN  SumFrom(d, group, k + 1,
                     [x |-> acc.x + v.x, y |-> acc.y + v.y, z |-> acc.z + v.z,
                      unit |-> acc.unit])

\* mutant of Centroid: center.divideScalar(group.length) is lost
CentroidUndivided(d, group) ==
    SumFrom(d, group, 1, [x |-> 0, y |-> 0, z |-> 0, unit |-> SceneScale])

\* center.add(g.vec) for every member, then center.divideScalar(group.length)
Centroid(d, group) ==
    LET sum == SumFrom(d, group, 1, [x |-> 0, y |-> 0, z |-> 0, unit |-> SceneScale])
    IN  [sum EXCEPT !.unit = FMul(sum.unit, Frac(1, Len(group)))]

\* `cluster-${i}-${time}`, i counted from 0
ClusterId(i, t) == "cluster-" \o ToString(i - 1) \o "-" \o ToString(t)

MkCluster(d, group, i, t) ==
    [center |-> Centroid(d, group), count |-> Len(group), id |-> ClusterId(i, t)]

\* mutant of Emit: group.length > 0 in place of group.length > 1
EmitFromOne(out, d, group, i, t) ==
    IF Len(group) > 0
    THEN [out EXCEPT !.groups = Append(@, group),
                     !.clusters = Append(@, MkCluster(d, group, i, t))]
    ELSE [out EXCEPT !.groups = Append(@, group),
                     !.singles = Append(@, d[group[1]])]

\* if (group.length > 1) clusters.push(...) else singles.push(group[0])
Emit(out, d, group, i, t) ==
    IF Len(group) > 1
    THEN [out EXCEPT !.groups = Append(@, group),
                     !.clusters = Append(@, MkCluster(d, group, i, t))]
    ELSE [out EXCEPT !.groups = Append(@, group),
                     !.singles = Append(@, d[group[1]])]

\* the outer for loop from index i on
RECURSIVE ClusterFrom(_, _, _, _, _)
ClusterFrom(d, i, t, processed, out) ==
    IF i > Len(d) THEN out
    ELSE IF i \in processed THEN ClusterFrom(d, i + 1, t, processed, out)
    ELSE LET g == GatherFrom(d, i, i + 1, <<i>>, processed \cup {i})
         IN  ClusterFrom(d, i + 1, t, g.processed, Emit(out, d, g.group, i, t))

ClusterDebris(objs, t) ==
    ClusterFrom(DataOf(objs, t), 1, t, {},
                [groups |-> <<>>, clusters |-> <<>>, singles |-> <<>>])

----------------------------------------------------------------------------
(* Inputs *)

Elements(a, e, i, w, O, M0, n) ==
    [a |-> a, e |-> e, i |-> i, w |-> w, O |-> O, M0 |-> M0, n |-> n]

Satellite(k, name, el) ==
    [id |-> "SAT-" \o ToString(k), name |-> name, type |-> "SATELLITE",
     color |-> "#06b6d4", elements |-> el]

Debris(idNumber, k, el) ==
    [id |-> "DEB-" \o ToString(idNumber), name |-> "DEBRIS FAGMENT #" \o ToString(k),
     type |-> "DEBRIS", color |-> "#ef4444", elements |-> el]

Zero == Frac(0, 1)

\* radius and axis at t = 0 / t = 10 are given beside each object
Pool ==
    << Debris(4821, 1, Elements(7100, Zero, 0, 1, 0, 3, 2)),          \* 7100 +x / 7100 +x
       Satellite(0, "SENTINEL-1", Elements(7000, Zero, 0, 0, 0, 0, 2)), \* 7000 +x / 7000 +x
       Debris(1375, 2, Elements(7600, Zero, 2, 0, 0, 0, 2)),          \* 7600 +x / 7600 +x
       Debris(9040, 3, Elements(6900, Zero, 0, 0, 0, 0, 1)),          \* 6900 +x / 6900 -x
       Satellite(1, "NONAME-X", Elements(7100, Zero, 1, 0, 0, 4, 2)), \* 7100 +x / 7100 +x
       Debris(2266, 4, Elements(7000, Frac(1, 10), 0, 0, 0, 0, 1)),   \* 6300 +x / 7700 -x
       Debris(5512, 5, Elements(6250, Zero, 1, 0, 0, 2, 1)),          \* 6250 -x / 6250 +x
       Debris(7903, 6, Elements(8000, Zero, 0, 2, 0, 2, 2)) >>        \* 8000 +x / 8000 +x

TimeSet == {0, 10}

\* the elements of the index set S, in increasing order
RECURSIVE Ascending(_)
Ascending(S) ==
    IF S = {} THEN <<>>
    ELSE LET m == CHOOSE i \in S : \A j \in S : j <= i
         IN  Append(Ascending(S \ {m}), m)

SubPool(S) == [k \in 1 .. Cardinality(S) |-> Pool[Ascending(S)[k]]]

ObjectLists ==
    {SubPool(S) : S \in {T \in SUBSET (1 .. Len(Pool)) : Cardinality(T) <= MaxObjects}}

DebrisPool == {Pool[k] : k \in {j \in 1 .. Len(Pool) : Pool[j].type = "DEBRIS"}}

DebrisLists == UNION {[1 .. n -> DebrisPool] : n \in 0 .. MaxDebrisField}

\* the outcomes of the two Math.random() calls made for one close pair: the
\* lowest, 5/8 and 4/8, the highest
DrawSet ==
    {[jitter |-> 0, tti |-> 0],
     [jitter |-> 5, tti |-> 4],
     [jitter |-> RandDen - 1, tti |-> RandDen - 1]}

----------------------------------------------------------------------------
(* The parts of the state a specification does not use *)

DetectorIdle == objects = <<>> /\ draws = <<>> /\ result = <<>>

FieldIdle == fieldObjects = <<>> /\ groups = <<>> /\ clusters = <<>> /\ singles = <<>>

ManeuverIdle ==
    /\ target = <<>>
    /\ targetAfter = <<>>
    /\ selected = <<>>
    /\ maneuver = <<>>
    /\ predicted = <<>>

PropagatorIdle == position = <<>> /\ locals = <<>>

GeneratorIdle == population = <<>>

\* no update queued: no value set for objects, for alerts or for maneuver, no
\* t => t + 10
NoUpdates == [objects |-> <<>>, alerts |-> <<>>, maneuver |-> <<>>, ticks |-> 0]

HostIdle ==
    /\ alerts = <<>>
    /\ selectedAlert = <<>>
    /\ appManeuver = <<>>
    /\ plannedFor = <<>>
    /\ timeouts = <<>>
    /\ pending = NoUpdates
    /\ effects = FALSE
    /\ polling = <<>>
    /\ frameIn = 0
    /\ intervalIn = 0
    /\ sincePass = 0

ClassifierIdle == sample = <<>>

----------------------------------------------------------------------------
(* Specification of one checkConjunctions call *)

Init ==
    /\ objects \in ObjectLists
    /\ time \in TimeSet
    /\ draws = <<>>
    /\ result = <<>>
    /\ pc = "ready"
    /\ outcome = "none"
    /\ FieldIdle /\ ManeuverIdle /\ PropagatorIdle /\ GeneratorIdle /\ HostIdle /\ ClassifierIdle

\* mutant of Detect: the filter is applied to the caller's array in place
DetectInPlace ==
    /\ pc = "ready"
    /\ \E ds \in [1 .. Len(ClosePairs(objects, time)) -> DrawSet] :
          /\ draws' = ds
          /\ result' = CheckConjunctions(objects, time, ds)
    /\ objects' = SatsOf(objects)
    /\ pc' = "done"
    /\ outcome' = "returned"
    /\ UNCHANGED <<hostVars, sample, time, fieldVars, maneuverVars, propagatorVars,
                   population>>

Detect ==
    /\ pc = "ready"
    /\ \E ds \in [1 .. Len(ClosePairs(objects, time)) -> DrawSet] :
          /\ draws' = ds
          /\ result' = CheckConjunctions(objects, time, ds)
    /\ pc' = "done"
    /\ outcome' = "returned"
    /\ UNCHANGED <<hostVars, sample,
                   objects, time, fieldVars, maneuverVars, propagatorVars, population>>

Next == Detect

Spec == Init /\ [][Next]_vars

----------------------------------------------------------------------------
(* Specification of one evaluation of the DebrisField memo *)

InitCluster ==
    /\ fieldObjects \in DebrisLists
    /\ time \in TimeSet
    /\ groups = <<>>
    /\ clusters = <<>>
    /\ singles = <<>>
    /\ pc = "ready"
    /\ outcome = "none"
    /\ DetectorIdle /\ ManeuverIdle /\ PropagatorIdle /\ GeneratorIdle /\ HostIdle /\ ClassifierIdle

RenderDebrisField ==
    /\ pc = "ready"
    /\ LET out == ClusterDebris(fieldObjects, time)
       IN  /\ groups' = out.groups
           /\ clusters' = out.clusters
           /\ singles' = out.singles
    /\ pc' = "done"
    /\ outcome' = "returned"
    /\ UNCHANGED <<hostVars, sample,
                   detectorVars, time, fieldObjects, maneuverVars, propagatorVars, population>>

NextCluster == RenderDebrisField

SpecCluster == InitCluster /\ [][NextCluster]_vars

----------------------------------------------------------------------------
(* The inputs are within the exact domain of the propagator *)

InputsPropagable ==
    /\ \A k \in 1 .. Len(objects) : Propagable(objects[k], time)
    /\ \A k \in 1 .. Len(fieldObjects) : Propagable(fieldObjects[k], time)

----------------------------------------------------------------------------
(* Claims about checkConjunctions (specification Spec) *)

Done == pc = "done"

Returned == {result[k] : k \in 1 .. Len(result)}

\* the squared Euclidean distance between the propagated positions of a and b
SquaredDistance(a, b, t) ==
    LET p == GetPositionAtTime(a, t)
        q == GetPositionAtTime(b, t)
    IN  (p.x - q.x) * (p.x - q.x) + (p.y - q.y) * (p.y - q.y) + (p.z - q.z) * (p.z - q.z)

\* the (asset, debris) pairs of the input whose positions are exactly km apart
PairsApart(km) ==
    {pr \in {PairsOf(objects)[k] : k \in 1 .. Len(PairsOf(objects))} :
        SquaredDistance(pr.sat, pr.deb, time) = km * km}

\* min(1, 500/d) as a fraction, with 500/0 read as infinity
UnitOr500Over(d) == IF d <= 500 THEN Frac(1, 1) ELSE Frac(500, d)

\* C1: a returned conjunction is never LOW and has probability > 0.3
C1_NeverLow ==
    Done => \A c \in Returned : c.riskLevel # "LOW" /\ FLt(Frac(3, 10), c.probability)

\* C1 witness: a pair 700 km apart with the lowest jitter is returned, at 4/7
C1_Witness ==
    Done /\ \E c \in Returned :
        c.missDistance = 700 /\ c.probability = Frac(4, 7) /\ c.riskLevel = "MEDIUM"

\* C2: at most 5 conjunctions are returned, in non-increasing order of probability
C2_TopFiveSorted ==
    Done => /\ Len(result) <= 5
            /\ \A k \in 1 .. Len(result) - 1 :
                  FLe(result[k + 1].probability, result[k].probability)

\* C2 witness: more than 5 pairs qualified and the 5 returned differ in probability
C2_Witness ==
    /\ Done
    /\ Len(Candidates(objects, time, draws)) > 5
    /\ Len(result) = 5
    /\ FLt(result[5].probability, result[1].probability)
    /\ \E k \in 1 .. 4 :
          FLt(Candidates(objects, time, draws)[k].probability,
              Candidates(objects, time, draws)[k + 1].probability)

HasType(ty) == \E k \in 1 .. Len(objects) : objects[k].type = ty

\* C3: no objects, no SATELLITE or no DEBRIS: the call returns the empty array
C3_EmptyPopulation ==
    (Done /\ (objects = <<>> \/ ~HasType("SATELLITE") \/ ~HasType("DEBRIS")))
        => result = <<>>

\* C3 witness: a call on two satellites and no debris has returned
C3_Witness ==
    /\ Done
    /\ Len(objects) = 2
    /\ \A k \in 1 .. Len(objects) : objects[k].type = "SATELLITE"
    /\ result = <<>>

\* C4: HIGH exactly when probability > 0.7, MEDIUM exactly when 0.3 < probability <= 0.7
C4_RiskFromProbability ==
    Done => \A c \in Returned :
        /\ c.riskLevel = "HIGH" <=> FLt(Frac(7, 10), c.probability)
        /\ c.riskLevel = "MEDIUM" <=>
              (FLt(Frac(3, 10), c.probability) /\ FLe(c.probability, Frac(7, 10)))

\* C4 witness: a conjunction of probability exactly 0.7 is returned as MEDIUM
C4_Witness ==
    Done /\ \E c \in Returned : c.probability = Frac(7, 10) /\ c.riskLevel = "MEDIUM"

\* C5 as stated: at t = 0 every (asset, debris) pair exactly 100 km apart is in the output
C5_AlwaysReturned ==
    (Done /\ time = 0) =>
        \A pr \in PairsApart(100) :
            \E c \in Returned : c.id = ConjunctionId(pr.sat, pr.deb, 0)

\* C5 amended: at t = 0 every (asset, debris) pair exactly 100 km apart qualifies
\* as a HIGH candidate of probability >= 0.8, and is in the output unless at
\* least 5 other qualifying pairs have a probability greater than or equal to its own
C5_ReturnedUnlessOutranked ==
    (Done /\ time = 0) =>
        LET cand == Candidates(objects, 0, draws)
        IN  \A pr \in PairsApart(100) :
                \E k \in 1 .. Len(cand) :
                    /\ cand[k].id = ConjunctionId(pr.sat, pr.deb, 0)
                    /\ cand[k].riskLevel = "HIGH"
                    /\ FLe(Frac(8, 10), cand[k].probability)
                    /\ (Cardinality({j \in 1 .. Len(cand) :
                            j # k /\ FLe(cand[k].probability, cand[j].probability)}) < 5
                          => cand[k] \in Returned)

\* C5 witness: a pair 100 km apart is returned at t = 0 although 6 pairs qualified
C5_Witness ==
    /\ Done
    /\ time = 0
    /\ Len(Candidates(objects, 0, draws)) > 5
    /\ \E pr \in PairsApart(100) :
          \E c \in Returned : c.id = ConjunctionId(pr.sat, pr.deb, 0)

\* C6: every returned conjunction pairs a SATELLITE with a DEBRIS object of the
\* input, its missDistance is their Euclidean distance at the evaluation time,
\* and that distance is below 800 km
C6_AssetDebrisPair ==
    Done => \A c \in Returned :
        \E i, j \in 1 .. Len(objects) :
            /\ objects[i].type = "SATELLITE"
            /\ objects[j].type = "DEBRIS"
            /\ c.objectA = objects[i].name
            /\ c.objectB = objects[j].name
            /\ c.id = ConjunctionId(objects[i], objects[j], time)
            /\ c.missDistance >= 0
            /\ c.missDistance * c.missDistance
                  = SquaredDistance(objects[i], objects[j], time)
            /\ c.missDistance < 800

\* C6 witness: a conjunction is returned while another (asset, debris) pair of
\* the input, exactly 800 km apart, is not
C6_Witness ==
    /\ Done
    /\ result # <<>>
    /\ \E pr \in PairsApart(800) :
          \A c \in Returned : c.id # ConjunctionId(pr.sat, pr.deb, time)

\* C7: 0.8*min(1, 500/d) <= p <= min(0.99, 1.2*min(1, 500/d)) for miss distance d
C7_ProbabilityBounds ==
    Done => \A c \in Returned :
        LET base == UnitOr500Over(c.missDistance)
        IN  /\ FLe(FMul(Frac(8, 10), base), c.probability)
            /\ FLe(c.probability, FMin(Frac(99, 100), FMul(Frac(12, 10), base)))
            /\ FLe(c.probability, Frac(99, 100))
            /\ FLe(Frac(0, 1), c.probability)

\* C7 witness: at 100 km the highest jitter gives 1.15, returned as 0.99
C7_Witness ==
    Done /\ \E c \in Returned : c.missDistance = 100 /\ c.probability = Frac(99, 100)

----------------------------------------------------------------------------
(* Claims about the clustering of DebrisField (specification SpecCluster) *)

Inputs == 1 .. Len(fieldObjects)

\* the input indices that group g holds
MembersOf(g) == {groups[g][m] : m \in 1 .. Len(groups[g])}

\* the input indices taken by the groups before group g
TakenBefore(g) == UNION {MembersOf(h) : h \in 1 .. g - 1}

\* the distance between inputs i and j in scene units (1 unit = 637.1 km)
SceneDistance(i, j) ==
    FMul(Frac(Distance(GetPositionAtTime(fieldObjects[i], time),
                       GetPositionAtTime(fieldObjects[j], time)), 1),
         Frac(10, 6371))

\* the scene distance between inputs i and j is below 2.5
Near(i, j) == FLt(SceneDistance(i, j), Frac(5, 2))

RECURSIVE SumOfCounts(_, _)
SumOfCounts(cs, k) == IF k > Len(cs) THEN 0 ELSE cs[k].count + SumOfCounts(cs, k + 1)

\* the groups of more than one member, and those of one member, in order
LargeGroups == SelectSeq(groups, LAMBDA g : Len(g) > 1)
LoneGroups == SelectSeq(groups, LAMBDA g : Len(g) = 1)

\* C8: every input object is in exactly one group, once; the clusters are the
\* groups of several members with their sizes as counts, the singles are the
\* members of the groups of one; so counts plus singles add up to the input
C8_ExactlyOneOutput ==
    Done =>
        /\ \A i \in Inputs :
              /\ Cardinality({g \in 1 .. Len(groups) : i \in MembersOf(g)}) = 1
              /\ \A g \in 1 .. Len(groups) :
                    Cardinality({m \in 1 .. Len(groups[g]) : groups[g][m] = i}) <= 1
        /\ \A g \in 1 .. Len(groups) : MembersOf(g) \subseteq Inputs
        /\ Len(clusters) = Len(LargeGroups)
        /\ \A k \in 1 .. Len(clusters) : clusters[k].count = Len(LargeGroups[k])
        /\ Len(singles) = Len(LoneGroups)
        /\ \A k \in 1 .. Len(singles) :
              singles[k].obj = fieldObjects[LoneGroups[k][1]]
        /\ SumOfCounts(clusters, 1) + Len(singles) = Len(fieldObjects)

\* C8 witness: of three inputs the third is near the second but not the first;
\* the second is taken by the first's cluster and the third is left a single
C8_Witness ==
    /\ Done
    /\ Len(fieldObjects) = 3
    /\ Near(1, 2) /\ Near(2, 3) /\ ~Near(1, 3)
    /\ Len(clusters) = 1 /\ clusters[1].count = 2
    /\ Len(singles) = 1 /\ singles[1].obj = fieldObjects[3]

\* C9: when no two inputs are nearer than the threshold there is no cluster and
\* the singles are the inputs, with their scene positions, in input order
C9_AllFarAllSingles ==
    (Done /\ \A i, j \in Inputs : i < j => ~Near(i, j)) =>
        /\ clusters = <<>>
        /\ Len(singles) = Len(fieldObjects)
        /\ \A k \in Inputs :
              /\ singles[k].obj = fieldObjects[k]
              /\ singles[k].vec.x = GetPositionAtTime(fieldObjects[k], time).x
              /\ singles[k].vec.y = GetPositionAtTime(fieldObjects[k], time).y
              /\ singles[k].vec.z = GetPositionAtTime(fieldObjects[k], time).z
              /\ singles[k].vec.unit = Frac(10, 6371)

\* C9 witness: three inputs, pairwise beyond the threshold, came out as three singles
C9_Witness ==
    /\ Done
    /\ Len(fieldObjects) = 3
    /\ \A i, j \in Inputs : i < j => ~Near(i, j)
    /\ clusters = <<>>
    /\ Len(singles) = 3

\* C10: each group is seeded by the lowest input not yet taken and holds, in
\* input order, the seed and exactly the later inputs not yet taken that are
\* near the seed; and three inputs of which exactly two are near each other
\* give one cluster of 2 and one single
C10_GreedyFromSeed ==
    Done =>
        /\ UNION {MembersOf(g) : g \in 1 .. Len(groups)} = Inputs
        /\ \A g \in 1 .. Len(groups) :
              LET seed == groups[g][1]
              IN  /\ seed \in Inputs \ TakenBefore(g)
                  /\ \A i \in Inputs \ TakenBefore(g) : seed <= i
                  /\ MembersOf(g) =
                        {seed} \cup {j \in Inputs \ TakenBefore(g) : j > seed /\ Near(seed, j)}
                  /\ \A m \in 1 .. Len(groups[g]) - 1 : groups[g][m] < groups[g][m + 1]
        /\ (/\ Len(fieldObjects) = 3
            /\ Cardinality({p \in Inputs \X Inputs : p[1] < p[2] /\ Near(p[1], p[2])}) = 1)
              => (Len(clusters) = 1 /\ clusters[1].count = 2 /\ Len(singles) = 1)

\* C10 witness: the first and third of three inputs are within 1.0 of each
\* other, the second is 10.0 or more from both: one cluster of 2 seeded by the
\* first, one single
C10_Witness ==
    /\ Done
    /\ Len(fieldObjects) = 3
    /\ Near(1, 3) /\ ~Near(1, 2) /\ ~Near(2, 3)
    /\ FLe(SceneDistance(1, 3), Frac(1, 1))
    /\ FLe(Frac(10, 1), SceneDistance(1, 2)) /\ FLe(Frac(10, 1), SceneDistance(2, 3))
    /\ groups = << <<1, 3>>, <<2>> >>
    /\ Len(clusters) = 1 /\ clusters[1].count = 2
    /\ Len(singles) = 1 /\ singles[1].obj = fieldObjects[2]

\* the sum over the members of group g of coordinate c of their propagated positions
RECURSIVE MemberSum(_, _, _)
MemberSum(g, m, c) ==
    IF m > Len(g) THEN 0
    ELSE LET p == GetPositionAtTime(fieldObjects[g[m]], time)
         IN  (CASE c = "x" -> p.x [] c = "y" -> p.y [] c = "z" -> p.z) + MemberSum(g, m + 1, c)

\* coordinate c of the scene vector v, as a fraction of scene units
SceneCoord(v, c) ==
    FMul(Frac(CASE c = "x" -> v.x [] c = "y" -> v.y [] c = "z" -> v.z, 1), v.unit)

\* C11: every cluster has count = the size of its group, count >= 2, and
\* center * count = the sum of its members' scene positions, per coordinate;
\* no group of one member is emitted as a cluster
C11_CountAndCentroid ==
    Done =>
        /\ Len(clusters) = Len(LargeGroups)
        /\ \A k \in 1 .. Len(clusters) :
              /\ clusters[k].count = Len(LargeGroups[k])
              /\ clusters[k].count >= 2
              /\ \A c \in {"x", "y", "z"} :
                    FMul(SceneCoord(clusters[k].center, c), Frac(clusters[k].count, 1))
                        = FMul(Frac(MemberSum(LargeGroups[k], 1, c), 1), Frac(10, 6371))

\* C11 witness: a cluster of three members at three different positions
C11_Witness ==
    /\ Done
    /\ Len(clusters) = 1
    /\ clusters[1].count = 3
    /\ Cardinality({GetPositionAtTime(fieldObjects[i], time) : i \in Inputs}) = 3
    /\ SceneCoord(clusters[1].center, "x") # Frac(0, 1)

----------------------------------------------------------------------------
(* Maneuver planning and projection: calculateManeuver, getPostManeuverObject *)
(*                                                                         *)
(* The maneuver's numbers are exact fractions.  A fraction with den = 0    *)
(* stands for a value that is not a finite number: NaN, or undefined (an   *)
(* array index past the end).  A perturbed element is the unperturbed      *)
(* value plus an exact increment: a is a fraction of kilometres, i and O   *)
(* are records [quarters, rad] meaning quarters * pi/2 + rad radians.      *)

NaN == [num |-> 0, den |-> 0]

Undefined == [num |-> 1, den |-> 0]

IsNumber(x) == x.den # 0

\* x * k in JavaScript, k a finite number: undefined * k and NaN * k are NaN
Times(x, k) == IF IsNumber(x) THEN FMul(x, k) ELSE NaN

\* x + y in JavaScript, for numbers
Plus(x, y) == IF IsNumber(x) /\ IsNumber(y) THEN FAdd(x, y) ELSE NaN

\* angle (quarter turns) += delta (radians)
PlusRadians(angle, delta) ==
    IF IsNumber(delta) THEN [quarters |-> angle, rad |-> delta]
    ELSE [quarters |-> 0, rad |-> NaN]

\* vector[k], k counted from 0
VectorAt(vector, k) == IF k < Len(vector) THEN vector[k + 1] ELSE Undefined

\* Math.floor
Floor(x) == x.num \div x.den

\* Number(x.toFixed(2)): x rounded to hundredths, halves away from zero
ToFixed2(x) ==
    LET q == (2 * 100 * Abs(x.num) + x.den) \div (2 * x.den)
    IN  Frac(IF x.num < 0 THEN -q ELSE q, 100)

One == Frac(1, 1)

\* Math.random() * 2 - 1
VectorComponentUnshifted(rnd) == ToFixed2(FMul(rnd, Frac(2, 1)))

VectorComponent(rnd) == ToFixed2(FSub(FMul(rnd, Frac(2, 1)), One))

\* Math.random() in calculateManeuver: a double of [0, 1) with ten binary
\* places, k / 1024 for k in 0 .. 1023.  Such a draw is the same number in
\* the code and in the model, and so are r * 2 - 1 and r * 10.
PlannerRandom(k) == Frac(k, 2 ^ 10)

\* Number((1.2 + Math.random()).toFixed(2)).  The literal 1.2 is the double
\* 5404319552844595 / 2^52, about 4.4e-17 below 6/5.  Off a tie the double
\* sum rounds as the exact sum does.  6/5 + rnd is halfway between two
\* hundredths for rnd = 1/8, 3/8, 5/8 and 7/8 only: below 2 the double sum
\* is exact, stays below the tie and toFixed rounds down (1.32, 1.57,
\* 1.82); at 7/8 the sum is halfway between two doubles, rounds to the
\* even one above 2.075 and toFixed rounds up (2.08).
ThrustN(rnd) ==
    LET s == FAdd(Frac(12, 10), rnd)
        down == Floor(FMul(s, Frac(100, 1)))
        onTie == FSub(FMul(s, Frac(100, 1)), Frac(down, 1)) = Frac(1, 2)
    IN  IF onTie THEN Frac(IF FLt(s, Frac(2, 1)) THEN down ELSE down + 1, 100)
        ELSE ToFixed2(s)

\* mutant of CalculateManeuver: the target is the conjunction's objectB
CalculateManeuverForDebris(conjunction, rs, now) ==
    [targetId  |-> conjunction.objectB,
     thrustN   |-> ThrustN(PlannerRandom(rs[1])),
     vector    |-> <<VectorComponent(PlannerRandom(rs[2])),
                     VectorComponent(PlannerRandom(rs[3])),
                     VectorComponent(PlannerRandom(rs[4]))>>,
     duration  |-> Floor(FMul(PlannerRandom(rs[5]), Frac(10, 1))) + 5,
     timestamp |-> now]

\* rs: the outcomes of the five Math.random() calls, in evaluation order, as
\* numerators over 1024; now: the value of new Date().toISOString()
CalculateManeuver(conjunction, rs, now) ==
    [targetId  |-> conjunction.objectA,
     thrustN   |-> ThrustN(PlannerRandom(rs[1])),
     vector    |-> <<VectorComponent(PlannerRandom(rs[2])),
                     VectorComponent(PlannerRandom(rs[3])),
                     VectorComponent(PlannerRandom(rs[4]))>>,
     duration  |-> Floor(FMul(PlannerRandom(rs[5]), Frac(10, 1))) + 5,
     timestamp |-> now]

\* JSON.parse(JSON.stringify(obj)): a new object with the same finite numbers
\* and strings in every field
DeepCopy(obj) ==
    [id |-> obj.id, name |-> obj.name, type |-> obj.type, color |-> obj.color,
     elements |-> [a |-> obj.elements.a, e |-> obj.elements.e, i |-> obj.elements.i,
                   w |-> obj.elements.w, O |-> obj.elements.O,
                   M0 |-> obj.elements.M0, n |-> obj.elements.n]]

PerturbSwapped(el, vector) ==
    [el EXCEPT !.i = PlusRadians(@, Times(VectorAt(vector, 0), Frac(15, 100))),
               !.a = Plus(Frac(@, 1), Times(VectorAt(vector, 2), Frac(300, 1))),
               !.O = PlusRadians(@, Times(VectorAt(vector, 1), Frac(1, 10)))]

\* mutant of Perturb: the semi-major axis shifts by vector[0] * 3000
PerturbTenfold(el, vector) ==
    [el EXCEPT !.i = PlusRadians(@, Times(VectorAt(vector, 2), Frac(15, 100))),
               !.a = Plus(Frac(@, 1), Times(VectorAt(vector, 0), Frac(3000, 1))),
               !.O = PlusRadians(@, Times(VectorAt(vector, 1), Frac(1, 10)))]

\* the three += statements on newObj.elements
Perturb(el, vector) ==
    [el EXCEPT !.i = PlusRadians(@, Times(VectorAt(vector, 2), Frac(15, 100))),
               !.a = Plus(Frac(@, 1), Times(VectorAt(vector, 0), Frac(300, 1))),
               !.O = PlusRadians(@, Times(VectorAt(vector, 1), Frac(1, 10)))]

\* no copy: newObj is obj itself
GetPostManeuverObjectAliased(obj, m) ==
    LET changed == [obj EXCEPT !.elements = Perturb(obj.elements, m.vector),
                               !.id = obj.id \o "-PREDICTED"]
    IN  [obj |-> changed, newObj |-> changed, returned |-> TRUE]

\* obj: the argument as the call leaves it; newObj: the returned object;
\* returned: the function has no throw statement and no check of its arguments
GetPostManeuverObject(obj, m) ==
    LET copy == DeepCopy(obj)
    IN  [obj      |-> obj,
         newObj   |-> [copy EXCEPT !.elements = Perturb(copy.elements, m.vector),
                                   !.id = obj.id \o "-PREDICTED"],
         returned |-> TRUE]

----------------------------------------------------------------------------
(* Specification of one maneuver: planned by calculateManeuver for a        *)
(* detected conjunction, or supplied by the caller, then projected onto an  *)
(* object by getPostManeuverObject                                          *)

\* the outcomes of one Math.random() call of calculateManeuver, over 1024:
\* 0, 1/8 (the thrust on a rounding tie), 0.333 and 0.999
UnitDraws == {0, 128, 341, 1023}

NowSet == {"2025-01-01T00:00:00.000Z"}

TargetPool == {Pool[2], Pool[5], Pool[6]}

\* the first and the last alert of a detection pass over the whole pool
ConjunctionPool ==
    LET n == Len(ClosePairs(Pool, 0))
        found == CheckConjunctions(Pool, 0, [k \in 1 .. n |-> [jitter |-> 5, tti |-> 4]])
    IN  {found[1], found[Len(found)]}

Hundredths(c) == Frac(c, 100)

\* maneuvers a caller builds by hand: vectors of zero to four components
SuppliedVectors ==
    {<<>>,
     <<Hundredths(100)>>,
     <<Hundredths(100), Hundredths(-50)>>,
     <<Hundredths(100), Hundredths(-50), Hundredths(25)>>,
     <<Hundredths(-37), Hundredths(0), Hundredths(100)>>,
     <<Hundredths(100), Hundredths(-50), Hundredths(25), Hundredths(75)>>}

SuppliedManeuvers ==
    {[targetId |-> "SENTINEL-1", thrustN |-> Hundredths(150), vector |-> v,
      duration |-> 5, timestamp |-> now] : v \in SuppliedVectors, now \in NowSet}

InitManeuver ==
    /\ target \in TargetPool
    /\ targetAfter = target
    /\ selected \in ConjunctionPool
    /\ \/ pc = "ready" /\ maneuver = <<>>
       \/ pc = "supplied" /\ maneuver \in SuppliedManeuvers
    /\ predicted = <<>>
    /\ time = 0
    /\ outcome = "none"
    /\ DetectorIdle /\ FieldIdle /\ PropagatorIdle /\ GeneratorIdle /\ HostIdle /\ ClassifierIdle

PlanManeuver ==
    /\ pc = "ready"
    /\ \E rs \in [1 .. 5 -> UnitDraws], now \in NowSet :
          maneuver' = CalculateManeuver(selected, rs, now)
    /\ pc' = "planned"
    /\ outcome' = "returned"
    /\ UNCHANGED <<hostVars, sample,
                   detectorVars, fieldVars, propagatorVars, population, time,
                   target, targetAfter, selected, predicted>>

ProjectManeuver ==
    /\ pc \in {"planned", "supplied"}
    /\ LET r == GetPostManeuverObject(target, maneuver)
       IN  /\ targetAfter' = r.obj
           /\ predicted' = r.newObj
           /\ outcome' = IF r.returned THEN "returned" ELSE "threw"
    /\ pc' = "projected"
    /\ UNCHANGED <<hostVars, sample,
                   detectorVars, fieldVars, propagatorVars, population, time,
                   target, selected, maneuver>>

NextManeuver == PlanManeuver \/ ProjectManeuver

SpecManeuver == InitManeuver /\ [][NextManeuver]_vars

----------------------------------------------------------------------------
(* Claims about getPostManeuverObject and calculateManeuver *)

Projected == pc = "projected"

WellFormed(m) == Len(m.vector) = 3 /\ \A k \in 1 .. 3 : IsNumber(m.vector[k])

\* C12: when getPostManeuverObject has returned, the object it was given has
\* the id, name, type, colour and seven elements it had before the call, and
\* the returned object's id is the input's id followed by "-PREDICTED", which
\* differs from the input's id
C12_InputUntouched ==
    Projected =>
        /\ targetAfter.id = target.id
        /\ targetAfter.name = target.name
        /\ targetAfter.type = target.type
        /\ targetAfter.color = target.color
        /\ targetAfter.elements = target.elements
        /\ predicted.id = target.id \o "-PREDICTED"
        /\ predicted.id # targetAfter.id

\* C12 witness: a projection that changed all three perturbed elements in the
\* returned object
C12_Witness ==
    /\ Projected
    /\ WellFormed(maneuver)
    /\ predicted.elements.a # Frac(target.elements.a, 1)
    /\ predicted.elements.i.rad # Zero
    /\ predicted.elements.O.rad # Zero
    /\ targetAfter.elements.a = target.elements.a

\* C13: for a maneuver with three numeric components, the returned object
\* has a = obj.a + vector[0]*300, i = obj.i + vector[2]*0.15 and
\* O = obj.O + vector[1]*0.1, and e, w, M0, n, name and type as in obj; every
\* field of the result is fixed by obj and the vector alone, so thrustN and
\* duration have no effect
C13_PerturbedElements ==
    (Projected /\ WellFormed(maneuver)) =>
        LET el == target.elements
            v  == maneuver.vector
        IN  /\ predicted.elements.a = FAdd(Frac(el.a, 1), FMul(v[1], Frac(300, 1)))
            /\ predicted.elements.i = [quarters |-> el.i, rad |-> FMul(v[3], Frac(15, 100))]
            /\ predicted.elements.O = [quarters |-> el.O, rad |-> FMul(v[2], Frac(1, 10))]
            /\ predicted.elements.e = el.e
            /\ predicted.elements.w = el.w
            /\ predicted.elements.M0 = el.M0
            /\ predicted.elements.n = el.n
            /\ predicted.name = target.name
            /\ predicted.type = target.type
            /\ predicted.color = target.color
            /\ predicted.id = target.id \o "-PREDICTED"

\* C13 witness: a planned maneuver with three different components, projected
\* onto an eccentric object
C13_Witness ==
    /\ Projected
    /\ WellFormed(maneuver)
    /\ Cardinality({maneuver.vector[k] : k \in 1 .. 3}) = 3
    /\ maneuver.thrustN = Hundredths(220)
    /\ maneuver.duration = 14
    /\ target.elements.e # Zero
    /\ predicted.elements.a = Frac(target.elements.a - 300, 1)

Planned == pc = "planned"

\* C14: a maneuver returned by calculateManeuver has a vector of exactly three
\* components, each in [-1, 1], thrustN in [1.2, 2.2] and an integer duration
\* in 5 .. 14
C14_ManeuverRanges ==
    Planned =>
        /\ Len(maneuver.vector) = 3
        /\ \A k \in 1 .. 3 :
              /\ IsNumber(maneuver.vector[k])
              /\ FLe(Hundredths(-100), maneuver.vector[k])
              /\ FLe(maneuver.vector[k], Hundredths(100))
        /\ FLe(Hundredths(120), maneuver.thrustN)
        /\ FLe(maneuver.thrustN, Hundredths(220))
        /\ maneuver.duration \in 5 .. 14
        /\ maneuver.targetId = selected.objectA

\* C14 witness: a planned maneuver at the ends of its ranges
C14_Witness ==
    /\ Planned
    /\ maneuver.vector[1] = Hundredths(-100)
    /\ maneuver.vector[2] = Hundredths(100)
    /\ maneuver.thrustN = Hundredths(220)
    /\ maneuver.duration = 14

----------------------------------------------------------------------------
(* Specification of one getPositionAtTime call, on any elements a caller    *)
(* can pass: the function reads them as they are                            *)

PropagatorTimes == {0, 3, 10}

\* elements with a and n positive, zero and negative, filtered to the inputs
\* on which the integer propagator is exact
PropagatorInputs ==
    {o \in {Satellite(0, "SENTINEL-1", Elements(a, e, i, w, O, M0, n)) :
                a \in {7000, 0, -7000}, e \in {Zero, Frac(1, 10)}, i \in 0 .. 2,
                w \in 0 .. 1, O \in 0 .. 1, M0 \in 0 .. 3, n \in {-1, 0, 1, 2}} :
        \A t \in PropagatorTimes : Propagable(o, t)}

InitPropagate ==
    /\ target \in PropagatorInputs
    /\ time \in PropagatorTimes
    /\ pc = "idle"
    /\ outcome = "none"
    /\ targetAfter = <<>> /\ selected = <<>> /\ maneuver = <<>> /\ predicted = <<>>
    /\ DetectorIdle /\ FieldIdle /\ PropagatorIdle /\ GeneratorIdle /\ HostIdle /\ ClassifierIdle

\* getPositionAtTime has no throw statement and no check of its arguments
Propagate ==
    /\ pc = "idle"
    /\ position' = GetPositionAtTime(target, time)
    /\ locals' = PropagationLocals(target, time)
    /\ outcome' = "returned"
    /\ pc' = "propagated"
    /\ UNCHANGED <<hostVars, sample,
                   detectorVars, fieldVars, maneuverVars, population, time>>

NextPropagate == Propagate

SpecPropagate == InitPropagate /\ [][NextPropagate]_vars

----------------------------------------------------------------------------
(* Claims about getPositionAtTime *)

Propagated == pc = "propagated"

SquaredNorm(p) == p.x * p.x + p.y * p.y + p.z * p.z

\* C16: for e = 0 the eccentric anomaly equals the mean anomaly M0 + n*t, the
\* radius equals a, and the returned position is at distance a from the origin
C16_CircularRadius ==
    (Propagated /\ target.elements.e = Zero) =>
        /\ locals.M = target.elements.M0 + target.elements.n * time
        /\ locals.E = locals.M
        /\ locals.r = target.elements.a
        /\ SquaredNorm(position) = target.elements.a * target.elements.a

\* C16 witness: a circular orbit propagated to t = 3 with the true anomaly a
\* quarter turn off the node line, on an inclined plane
C16_Witness ==
    /\ Propagated
    /\ target.elements.e = Zero
    /\ target.elements.a = 7000
    /\ target.elements.n = 1
    /\ target.elements.i = 1
    /\ time = 3
    /\ SinQ(locals.E) # 0
    /\ position.z # 0

----------------------------------------------------------------------------
(* Population generator: generateMockObjects                                *)
(*                                                                         *)
(* The generator's elements are exact fractions in the units of the code:  *)
(* a in kilometres, e a pure number, n in radians per second, and the      *)
(* angles i, w, O, M0 in units of pi (Math.PI is the factor 1 here).       *)
(* Math.random() is an exact fraction of [0, 1).                           *)

EarthRadius == 6371

SatNames == <<"SENTINEL-1", "NONAME-X", "EAGLE-EYE", "COMMS-A", "COMMS-B">>

DebrisIterations == 20

\* the last MaxGeneratedDebris iterations of the debris loop take every
\* outcome of DebrisDraws, each earlier iteration takes one outcome
MaxGeneratedDebris == 2

Thousandths(c) == Frac(c, 1000)

TenThousandths(c) == Frac(c, 10000)

\* the semi-major axis spans 1000 km above the base altitude
SatelliteElementsWide(rs) ==
    Elements(FAdd(Frac(EarthRadius + 500, 1), FMul(rs[1], Frac(1000, 1))),
             FMul(FAdd(One, FMul(rs[2], Frac(10, 1))), Thousandths(1)),
             FMul(rs[3], Frac(1, 2)),
             FMul(rs[4], Frac(2, 1)),
             FMul(rs[5], Frac(2, 1)),
             FMul(rs[6], Frac(2, 1)),
             FMul(FAdd(Frac(10, 1), rs[7]), TenThousandths(1)))

\* rs: the outcomes of the seven Math.random() calls of one satellite, in
\* evaluation order; 0.001 + r * 0.01 is computed in thousandths and
\* 0.0010 + r * 0.0001 in ten-thousandths
SatelliteElements(rs) ==
    Elements(FAdd(Frac(EarthRadius + 500, 1), FMul(rs[1], Frac(200, 1))),
             FMul(FAdd(One, FMul(rs[2], Frac(10, 1))), Thousandths(1)),
             FMul(rs[3], Frac(1, 2)),
             FMul(rs[4], Frac(2, 1)),
             FMul(rs[5], Frac(2, 1)),
             FMul(rs[6], Frac(2, 1)),
             FMul(FAdd(Frac(10, 1), rs[7]), TenThousandths(1)))

\* Math.floor(Math.random() * 9000) + 1000
DebrisIdNumber(rnd) == Floor(FMul(rnd, Frac(9000, 1))) + 1000

\* rs: the outcomes of the eight Math.random() calls of one debris object,
\* rs[1] being the one of the id; 0.0009 + r * 0.0003 is computed in
\* ten-thousandths
DebrisElements(rs) ==
    Elements(FAdd(Frac(EarthRadius + 400, 1), FMul(rs[2], Frac(1000, 1))),
             FMul(rs[3], Frac(1, 10)),
             rs[4],
             FMul(rs[5], Frac(2, 1)),
             FMul(rs[6], Frac(2, 1)),
             FMul(rs[7], Frac(2, 1)),
             FMul(FAdd(Frac(9, 1), FMul(rs[8], Frac(3, 1))), TenThousandths(1)))

\* the object pushed by iteration i (from 0) of sats.forEach
MockSatellite(i, rs) == Satellite(i, SatNames[i + 1], SatelliteElements(rs))

\* the object pushed by iteration i (from 0) of the debris loop
MockDebris(i, rs) == Debris(DebrisIdNumber(rs[1]), i + 1, DebrisElements(rs))

----------------------------------------------------------------------------
(* The start-up pass of the application: the population is generated and   *)
(* checkConjunctions(objs, 0) is called on it                              *)

\* the object as the integer propagator reads it at t = 0: a in kilometres,
\* angles in quarter turns; n * t = 0 for every n at t = 0
AtEpoch(obj) ==
    LET el == obj.elements
        Quarters(angle) == FMul(angle, Frac(2, 1)).num
    IN  [obj EXCEPT !.elements =
            Elements(el.a.num, el.e, Quarters(el.i), Quarters(el.w),
                     Quarters(el.O), Quarters(el.M0), 0)]

\* the first k objects of the population, each as AtEpoch reads it
RECURSIVE AllAtEpoch(_, _)
AllAtEpoch(pop, k) ==
    IF k = 0 THEN <<>> ELSE Append(AllAtEpoch(pop, k - 1), AtEpoch(pop[k]))

\* the generated objects on which AtEpoch and the integer propagator are exact
ExactAtEpoch(obj) ==
    LET el == obj.elements
    IN  /\ el.a.den = 1
        /\ \A angle \in {el.i, el.w, el.O, el.M0} : FMul(angle, Frac(2, 1)).den = 1
        /\ Propagable(AtEpoch(obj), 0)

\* outcomes of the seven draws of one satellite: one at 6993 km on +x, one at
\* 7014 km on -y, one near the upper end of every range
SatelliteDraws ==
    {<<Frac(129, 200), Zero, Zero, Zero, Zero, Zero, Zero>>,
     <<Frac(129, 200), Frac(1, 10), Zero, Zero, Frac(1, 4), Frac(1, 2), Frac(1, 2)>>,
     [k \in 1 .. 7 |-> Frac(99, 100)]}

\* outcomes of the eight draws of one debris object: two different draws that
\* give the id number 5500, at 7000 km and 7100 km on +x; the lower end of
\* every range; near the upper end of every range
DebrisDraws ==
    {<<Frac(1, 2), Frac(229, 1000), Zero, Zero, Zero, Zero, Zero, Zero>>,
     <<Frac(5001, 10000), Frac(329, 1000), Zero, Zero, Zero, Zero, Zero, Frac(1, 2)>>,
     [k \in 1 .. 8 |-> Zero],
     [k \in 1 .. 8 |-> Frac(99, 100)]}

\* the outcome of the eight draws of iteration i (from 0) where a single
\* outcome is followed: ids 1225, 1675, ... that differ from each other and
\* from the ids of DebrisDraws, a = 6771 + 50 * i km on -x
SingleDebrisDraw(i) ==
    <<Frac(2 * i + 1, 2 * DebrisIterations), Frac(i, DebrisIterations), Zero, Zero, Zero,
      Zero, Frac(1, 2), Zero>>

\* the outcomes followed for the eight draws of iteration i (from 0)
DebrisDrawsAt(i) ==
    IF i < DebrisIterations - MaxGeneratedDebris
    THEN {SingleDebrisDraw(i)}
    ELSE DebrisDraws

DebrisPushed == Len(population) - Len(SatNames)

InitStartup ==
    /\ population = <<>>
    /\ pc = "satellites"
    /\ time = 0
    /\ outcome = "none"
    /\ DetectorIdle /\ FieldIdle /\ ManeuverIdle /\ PropagatorIdle /\ HostIdle /\ ClassifierIdle

PushSatellite ==
    /\ pc = "satellites"
    /\ \E rs \in SatelliteDraws :
          population' = Append(population, MockSatellite(Len(population), rs))
    /\ pc' = IF Len(population) + 1 < Len(SatNames) THEN "satellites" ELSE "debris"
    /\ UNCHANGED <<hostVars, sample,
                   detectorVars, fieldVars, maneuverVars, propagatorVars, time, outcome>>

PushDebris ==
    /\ pc = "debris"
    /\ DebrisPushed < DebrisIterations
    /\ \E rs \in DebrisDrawsAt(DebrisPushed) :
          population' = Append(population, MockDebris(DebrisPushed, rs))
    /\ UNCHANGED <<hostVars, sample,
                   detectorVars, fieldVars, maneuverVars, propagatorVars, time, outcome, pc>>

ReturnObjects ==
    /\ pc = "debris"
    /\ ~(DebrisPushed < DebrisIterations)
    /\ pc' = "generated"
    /\ outcome' = "returned"
    /\ UNCHANGED <<hostVars, sample,
                   detectorVars, fieldVars, maneuverVars, propagatorVars, time, population>>

\* checkConjunctions(objs, 0), followed on the populations that are exact at
\* t = 0; each close pair takes the same two draws
AssessAtEpoch ==
    /\ pc = "generated"
    /\ \A k \in 1 .. Len(population) : ExactAtEpoch(population[k])
    /\ \E objs \in {AllAtEpoch(population, Len(population))} :
          /\ objects' = objs
          /\ \E d \in DrawSet, n \in {Len(ClosePairs(objs, time))} :
                \E ds \in {[k \in 1 .. n |-> d]} :
                    /\ draws' = ds
                    /\ result' = CheckConjunctions(objs, time, ds)
    /\ pc' = "assessed"
    /\ UNCHANGED <<hostVars, sample, fieldVars, maneuverVars, propagatorVars, time,
                   outcome, population>>

NextStartup == PushSatellite \/ PushDebris \/ ReturnObjects \/ AssessAtEpoch

SpecStartup == InitStartup /\ [][NextStartup]_vars

----------------------------------------------------------------------------
(* Claims about generateMockObjects and the start-up pass *)

Population == {population[k] : k \in 1 .. Len(population)}

\* C17: no two objects of a generated population share an id
C17_UniqueIds ==
    \A j, k \in 1 .. Len(population) :
        j # k => population[j].id # population[k].id

InRange(lo, x, hi) == FLe(lo, x) /\ FLe(x, hi)

\* C18: every generated satellite has a in [6871, 7071] km and e below 0.011;
\* every generated debris object has a in [6771, 7771] km, e in [0, 0.1] and
\* i in [0, pi]; every generated object has a > 0, 0 <= e < 1 and n > 0
C18_ElementRanges ==
    \A o \in Population :
        LET el == o.elements
        IN  /\ o.type = "SATELLITE" =>
                  /\ InRange(Frac(EarthRadius + 500, 1), el.a, Frac(EarthRadius + 700, 1))
                  /\ FLt(el.e, Thousandths(11))
            /\ o.type = "DEBRIS" =>
                  /\ InRange(Frac(EarthRadius + 400, 1), el.a, Frac(EarthRadius + 1400, 1))
                  /\ InRange(Zero, el.e, Frac(1, 10))
                  /\ InRange(Zero, el.i, One)
            /\ o.type \in {"SATELLITE", "DEBRIS"}
            /\ FLt(Zero, el.a)
            /\ FLe(Zero, el.e) /\ FLt(el.e, One)
            /\ FLt(Zero, el.n)

\* C18 witness: a returned population with a satellite and a debris object
\* near the upper ends of their ranges and a debris object at the lower ends
C18_Witness ==
    /\ pc = "generated"
    /\ \E o \in Population :
          /\ o.type = "SATELLITE"
          /\ o.elements.a = Frac(EarthRadius + 500 + 198, 1)
          /\ FLt(Thousandths(10), o.elements.e)
    /\ \E o \in Population :
          /\ o.type = "DEBRIS"
          /\ o.elements.a = Frac(EarthRadius + 400 + 990, 1)
          /\ o.elements.i = Frac(99, 100)
    /\ \E o \in Population :
          /\ o.type = "DEBRIS"
          /\ o.elements.a = Frac(EarthRadius + 400, 1)
          /\ o.elements.e = Zero

Assessed == pc = "assessed"

\* C19: the conjunctions one pass over a generated population returns have
\* pairwise distinct ids
C19_DistinctConjunctionIds ==
    Assessed =>
        \A j, k \in 1 .. Len(result) : j # k => result[j].id # result[k].id

----------------------------------------------------------------------------
(* Specification of one call of either function on what a caller can pass  *)

InitCalls == InitManeuver \/ InitPropagate

NextCalls == PlanManeuver \/ ProjectManeuver \/ Propagate

SpecCalls == InitCalls /\ [][NextCalls]_vars

\* C20: getPositionAtTime with a <= 0 or n <= 0, and getPostManeuverObject
\* with a vector that does not have three components, end in a failure
\* instead of returning
C20_FailsFast ==
    /\ (Propagated /\ (target.elements.a <= 0 \/ target.elements.n <= 0))
          => outcome = "threw"
    /\ (Projected /\ Len(maneuver.vector) # 3) => outcome = "threw"

----------------------------------------------------------------------------
(* Further claims about checkConjunctions (specification Spec) *)

\* the probability classified for each close pair of the call
PairProbabilities(pairs) ==
    [k \in 1 .. Len(pairs) |-> MlProb(PairDistance(pairs[k], time), draws[k].jitter)]

\* the close pairs that qualify: their risk is not LOW
Qualifying(probs) == {k \in DOMAIN probs : RiskOf(probs[k]) # LOW}

IsReturned(pr) == \E r \in Returned : r.id = ConjunctionId(pr.sat, pr.deb, time)

\* C24: with q qualifying pairs the result has min(5, q) entries, and no
\* qualifying pair left out has a probability greater than a returned one
C24_HighestReturned ==
    Done =>
        \A pairs \in {ClosePairs(objects, time)} :
            \A probs \in {PairProbabilities(pairs)} :
                /\ Len(result) = Min(5, Cardinality(Qualifying(probs)))
                /\ \A k \in Qualifying(probs) :
                      ~IsReturned(pairs[k]) =>
                          \A r \in Returned : ~FLt(r.probability, probs[k])

\* C24 witness: six qualifying pairs with the one left out strictly below
\* every returned entry
C24_Witness ==
    /\ Done
    /\ Len(result) = 5
    /\ \E pairs \in {ClosePairs(objects, time)} :
          \E probs \in {PairProbabilities(pairs)} :
              /\ Cardinality(Qualifying(probs)) = 6
              /\ \E k \in Qualifying(probs) :
                    /\ ~IsReturned(pairs[k])
                    /\ \A r \in Returned : FLt(probs[k], r.probability)

----------------------------------------------------------------------------
(* Specification of the classification of one pair by checkConjunctions:   *)
(* from its distance and one jitter draw to mlProb and risk                *)

\* whole kilometres up to just beyond the proximity threshold
DistanceSamples == 0 .. (ProximityKm + 1)

JitterSamples == {0, RandDen \div 2, RandDen - 1}

InitClassify ==
    /\ sample \in [dist : DistanceSamples, jitter : JitterSamples]
    /\ pc = "measured"
    /\ time = 0
    /\ outcome = "none"
    /\ DetectorIdle /\ FieldIdle /\ ManeuverIdle /\ PropagatorIdle /\ GeneratorIdle
    /\ HostIdle

\* the body of `if (dist < 800)` up to the computation of risk
Classify ==
    /\ pc = "measured"
    /\ IF IsClose(sample.dist)
       THEN LET mlProb == MlProb(sample.dist, sample.jitter)
            IN  /\ sample' = [dist |-> sample.dist, jitter |-> sample.jitter,
                              mlProb |-> mlProb, risk |-> RiskOf(mlProb)]
                /\ pc' = "classified"
       ELSE /\ sample' = sample
            /\ pc' = "skipped"
    /\ UNCHANGED <<hostVars, detectorVars, fieldVars, maneuverVars, propagatorVars,
                   population, time, outcome>>

NextClassify == Classify

SpecClassify == InitClassify /\ [][NextClassify]_vars

Classified == pc = "classified"

\* C27: a pair closer than 800 km gets a probability above 0.5 and so the
\* risk MEDIUM or HIGH; a pair closer than 500 km gets a probability of at
\* least 0.8 and the risk HIGH
C27_NeverLowInsideThreshold ==
    Classified =>
        /\ sample.dist < 800
        /\ FLt(Frac(1, 2), sample.mlProb)
        /\ sample.risk \in {MEDIUM, HIGH}
        /\ sample.dist < 500 =>
              /\ FLe(Frac(8, 10), sample.mlProb)
              /\ sample.risk = HIGH

\* C27 witness: the pair at 799 km with the lowest jitter, classified MEDIUM
C27_Witness ==
    /\ Classified
    /\ sample.dist = 799
    /\ sample.jitter = 0
    /\ sample.risk = MEDIUM
    /\ FLt(sample.mlProb, Frac(51, 100))

----------------------------------------------------------------------------
(* Specification of one call of either reading function: checkConjunctions *)
(* or getPositionAtTime                                                    *)

InitReads == Init \/ InitPropagate

NextReads == Detect \/ Propagate

SpecReads == InitReads /\ [][NextReads]_vars

\* C25: no step of checkConjunctions or getPositionAtTime changes its input:
\* the objects list keeps its length, order and objects, and the propagated
\* object keeps its id, name, type and elements
C25_InputsUnchanged == [][objects' = objects /\ target' = target]_vars

\* C25 witness: a returned detection over five objects with alerts
C25_Witness ==
    /\ Done
    /\ Len(objects) = 5
    /\ Len(result) >= 2
    /\ target = <<>>

----------------------------------------------------------------------------
(* The start-up pass followed by a plan for one of its alerts and the       *)
(* predictedObject memo of EarthScene                                       *)

\* the generated object in the units of getPostManeuverObject's model: a in
\* kilometres, angles in quarter turns; e and n as generated
InModelUnits(obj) ==
    [obj EXCEPT !.elements = [AtEpoch(obj).elements EXCEPT !.n = obj.elements.n]]

\* objects.find(o => o.name === name): <<>> for undefined, else the first match
Find(objs, name) ==
    LET matches == {k \in 1 .. Len(objs) : objs[k].name = name}
    IN  IF matches = {} THEN <<>>
        ELSE <<objs[CHOOSE k \in matches : \A j \in matches : k <= j]>>

\* the outcomes of the five Math.random() calls of one calculateManeuver call
PlannerDraws ==
    {[k \in 1 .. 5 |-> 0], [k \in 1 .. 5 |-> 128], [k \in 1 .. 5 |-> 341],
     [k \in 1 .. 5 |-> 1023]}

\* calculateManeuver on one of the alerts of the start-up pass
PlanForAlert ==
    /\ pc = "assessed"
    /\ \E k \in 1 .. Len(result), rs \in PlannerDraws, now \in NowSet :
          /\ selected' = result[k]
          /\ maneuver' = CalculateManeuver(result[k], rs, now)
    /\ pc' = "planned"
    /\ UNCHANGED <<hostVars, sample, detectorVars, fieldVars, propagatorVars, time,
                   outcome, population, target, targetAfter, predicted>>

\* the predictedObject memo: target is <<>> when find returns undefined and
\* predicted is <<>> when the memo returns null
PredictedObject ==
    /\ pc = "planned"
    /\ LET found == Find(population, maneuver.targetId)
       IN  /\ target' = found
           /\ IF found = <<>>
              THEN predicted' = <<>> /\ targetAfter' = <<>>
              ELSE LET r == GetPostManeuverObject(InModelUnits(found[1]), maneuver)
                   IN  predicted' = <<r.newObj>> /\ targetAfter' = <<r.obj>>
    /\ pc' = "predicted"
    /\ UNCHANGED <<hostVars, sample, detectorVars, fieldVars, propagatorVars, time,
                   outcome, population, selected, maneuver>>

NextMission == NextStartup \/ PlanForAlert \/ PredictedObject

SpecMission == InitStartup /\ [][NextMission]_vars

Predicted == pc = "predicted"

NamedLike(name) == {k \in 1 .. Len(population) : population[k].name = name}

\* C26: the planned maneuver's targetId is the objectA of its conjunction;
\* exactly one object of the population has that name, it is a SATELLITE, it
\* is the target the lookup finds, and the predicted object is computed from it
C26_TargetIsTheAsset ==
    Predicted =>
        /\ maneuver.targetId = selected.objectA
        /\ Cardinality(NamedLike(maneuver.targetId)) = 1
        /\ \A k \in NamedLike(maneuver.targetId) :
              /\ population[k].type = "SATELLITE"
              /\ target = <<population[k]>>
        /\ Len(predicted) = 1
        /\ predicted[1].id = target[1].id \o "-PREDICTED"
        /\ predicted[1].type = "SATELLITE"

\* C26 witness: a plan for an alert of the second satellite, with a debris
\* object also in the population
C26_Witness ==
    /\ Predicted
    /\ selected.objectA = "NONAME-X"
    /\ target # <<>>
    /\ target[1].id = "SAT-1"
    /\ \E k \in 1 .. Len(population) : population[k].name = selected.objectB

----------------------------------------------------------------------------
(* The start-up pass followed by a plan for one of its alerts, projected   *)
(* onto every object of the population by getPostManeuverObject            *)

\* getPostManeuverObject(obj, maneuver) for each obj of the population in
\* turn: target holds the arguments, targetAfter the arguments after the
\* calls, predicted the returned objects
ProjectOnEach ==
    /\ pc = "planned"
    /\ \E rs \in {[k \in 1 .. Len(population) |->
                    GetPostManeuverObject(InModelUnits(population[k]), maneuver)]} :
          /\ target' = population
          /\ targetAfter' = [k \in 1 .. Len(population) |-> rs[k].obj]
          /\ predicted' = [k \in 1 .. Len(population) |-> rs[k].newObj]
    /\ pc' = "projected"
    /\ UNCHANGED <<hostVars, sample, detectorVars, fieldVars, propagatorVars, time,
                   outcome, population, selected, maneuver>>

NextProjection == NextStartup \/ PlanForAlert \/ ProjectOnEach

SpecProjection == InitStartup /\ [][NextProjection]_vars

\* C28: a planned maneuver projected onto a generated object gives a
\* semi-major axis of at least 6371 + 100 km, above the Earth radius and
\* positive
C28_StaysAboveEarth ==
    Projected =>
        \A k \in 1 .. Len(predicted) :
            /\ IsNumber(predicted[k].elements.a)
            /\ FLe(Frac(EarthRadius + 100, 1), predicted[k].elements.a)
            /\ FLt(Frac(EarthRadius, 1), predicted[k].elements.a)
            /\ FLt(Zero, predicted[k].elements.a)

\* C28 witness: the lowest generated debris object with vector[0] = -1
C28_Witness ==
    /\ Projected
    /\ maneuver.vector[1] = Hundredths(-100)
    /\ \E k \in 1 .. Len(predicted) :
          /\ target[k].type = "DEBRIS"
          /\ target[k].elements.a = Frac(EarthRadius + 400, 1)
          /\ predicted[k].elements.a = Frac(EarthRadius + 100, 1)

----------------------------------------------------------------------------
(* Decimal arithmetic for the host.  At t > 0 the positions the propagator *)
(* returns are not rational numbers.  The host's passes are computed in    *)
(* fixed point with twelve decimal places: a magnitude is a sequence of    *)
(* digits to the base 10^4, lowest digit first, <<>> for 0, and a number   *)
(* is a sign and a magnitude in units of 10^-12.  Every operation          *)
(* truncates, so a result is within a few 10^-12 of the real value and     *)
(* within 10^-10 of the double the code computes.                          *)
(*                                                                         *)
(* TLC evaluates an argument where its value is first used, nested in the  *)
(* evaluation that uses it.  So carries are looked ahead and not rippled,  *)
(* a value that is used more than once is the argument of an operator,     *)
(* and an operator that is given the result of a long computation has it   *)
(* computed before its own body (Having).                                  *)

Base == 10 ^ 4

\* 1 in units of 10^-12
UnitMag == <<0, 0, 0, 1>>

Places == Len(UnitMag) - 1

\* y, once x has been computed: the components of a tuple from left to right
Having(x, y) == IF x = x THEN y ELSE y

\* the sum of the natural numbers f[x]
SumOf(f) ==
    LET counted == {x \in DOMAIN f : f[x] > 0}
    IN  IF counted = {} THEN 0 ELSE BagCardinality([x \in counted |-> f[x]])

\* the place of the highest digit of a that is not 0, or 0
Used(a) == CHOOSE k \in 0 .. Len(a) : (k = 0 \/ a[k] # 0) /\ \A j \in k + 1 .. Len(a) : a[j] = 0

\* a without its leading zeros
Trim(a) == SubSeq(a, 1, Used(a))

\* the magnitude of an integer 0 <= n < 2^31
MagOf(n) == Trim(<<n % Base, (n \div Base) % Base, n \div (Base * Base)>>)

DigitAt(a, k) == IF 1 <= k /\ k <= Len(a) THEN a[k] ELSE 0

\* the integer a magnitude below 2^31 stands for
ValueOf(a) == DigitAt(a, 1) + Base * (DigitAt(a, 2) + Base * DigitAt(a, 3))

\* The number with the digits s, each at most 2 * Base - 2, in digits below
\* Base: there is a carry into digit k when a digit below it is Base at
\* least and all between the two are Base - 1
Carried(s) ==
    Having(s,
           Trim([k \in 1 .. Len(s) + 1 |->
                    (DigitAt(s, k)
                       + (IF \E j \in 1 .. k - 1 :
                                s[j] >= Base /\ \A m \in j + 1 .. k - 1 : s[m] = Base - 1
                          THEN 1 ELSE 0)) % Base]))

MagAdd(a, b) ==
    Carried([k \in 1 .. (IF Len(a) < Len(b) THEN Len(b) ELSE Len(a)) |->
                DigitAt(a, k) + DigitAt(b, k)])

\* The number with the digits d, each above -Base and below Base, of a
\* number that is not negative, in digits from 0: there is a borrow from
\* digit k when a digit below it is negative and all between the two are 0
Borrowed(d) ==
    Having(d,
           Trim([k \in 1 .. Len(d) |->
                    (d[k] - (IF \E j \in 1 .. k - 1 :
                                   d[j] < 0 /\ \A m \in j + 1 .. k - 1 : d[m] = 0
                             THEN 1 ELSE 0)) % Base]))

\* a - b for a >= b
MagSub(a, b) == Borrowed([k \in 1 .. Len(a) |-> a[k] - DigitAt(b, k)])

MagLt(a, b) ==
    IF Len(a) # Len(b) THEN Len(a) < Len(b)
    ELSE \E k \in 1 .. Len(a) : a[k] < b[k] /\ \A j \in k + 1 .. Len(a) : a[j] = b[j]

\* a * Base^k
ShiftUp(a, k) ==
    IF a = <<>> THEN <<>> ELSE [j \in 1 .. k + Len(a) |-> IF j <= k THEN 0 ELSE a[j - k]]

\* a \div Base^k
ShiftDown(a, k) == IF Len(a) <= k THEN <<>> ELSE SubSeq(a, k + 1, Len(a))

\* a * m for an integer 0 <= m < Base: the low halves of the products of
\* the digits and, one digit up, their high halves
MagTimes(a, m) ==
    Carried([k \in 1 .. Len(a) + 1 |->
                ((DigitAt(a, k) * m) % Base) + ((DigitAt(a, k - 1) * m) \div Base)])

\* column and, one and two digits up, what its digits have above Base and
\* above Base^2, where low is the first two of the three
TopPart(column, low) ==
    Having(<<column, low>>,
           Carried([k \in 1 .. Len(column) + 2 |->
                       DigitAt(low, k) + (DigitAt(column, k - 2) \div (Base * Base))]))

\* the number with the digits column, each below Base^3
AddColumns(column) ==
    TopPart(column,
            Carried([k \in 1 .. Len(column) + 1 |->
                        (DigitAt(column, k) % Base)
                          + ((DigitAt(column, k - 1) \div Base) % Base)]))

\* a * b for a and b of twenty digits at most: column k is the sum of the
\* products a[i] * b[k + 1 - i]
MagMul(a, b) ==
    AddColumns([k \in 1 .. Len(a) + Len(b) |->
                   SumOf([i \in 1 .. Len(a) |-> a[i] * DigitAt(b, k + 1 - i)])])

\* the quotient digit of r1 by b, which is guess or 1 or 2 less
DigitFrom(b, r1, guess) ==
    IF ~MagLt(r1, MagTimes(b, guess)) THEN guess
    ELSE IF ~MagLt(r1, MagTimes(b, guess - 1)) THEN guess - 1
    ELSE guess - 2

\* the remainder r1 less q times b, and q before the digits qs
Taken(b, r1, qs, q) == Having(<<q>>, [r |-> MagSub(r1, MagTimes(b, q)), q |-> <<q>> \o qs])

\* The highest digit of b is Base/2 at least, so the guess from the two
\* highest digits of the remainder r1 is the quotient digit or 1 or 2 more
Brought(b, r1, qs) ==
    Having(<<r1>>,
           Taken(b, r1, qs,
                 DigitFrom(b, r1,
                           Min(Base - 1,
                               (DigitAt(r1, Len(b) + 1) * Base + DigitAt(r1, Len(b)))
                                  \div b[Len(b)]))))

\* One step of long division: digit k of a is brought down to the remainder
\* st.r < b and the quotient digit is put before the digits st.q
DivStep(a, b, k, st) == Brought(b, Trim(<<a[k]>> \o st.r), st.q)

\* long division from digit k of a down
RECURSIVE DivFrom(_, _, _, _)
DivFrom(a, b, k, st) ==
    IF st = st /\ k > 0 THEN DivFrom(a, b, k - 1, DivStep(a, b, k, st)) ELSE Trim(st.q)

\* an \div bn for bn with a highest digit of Base/2 at least: the digits of
\* an above the lowest Len(bn) - 1 are the first remainder
LongDiv(an, bn) ==
    Having(<<an, bn>>,
           IF Len(an) < Len(bn) THEN <<>>
           ELSE DivFrom(an, bn, Len(an) - Len(bn) + 1,
                        [r |-> SubSeq(an, Len(an) - Len(bn) + 2, Len(an)), q |-> <<>>]))

\* a \div b, both times f
Scaled(a, b, f) == LongDiv(MagTimes(a, f), MagTimes(b, f))

\* a \div b for b # 0
MagDiv(a, b) == Scaled(a, b, Base \div (b[Len(b)] + 1))

\* a \div n for an integer 0 < n < Base: st.r is the remainder of the digits
\* above k and the quotient digit is put before the digits st.q
RECURSIVE OverFrom(_, _, _, _)
OverFrom(a, n, k, st) ==
    IF st = st /\ k > 0
    THEN OverFrom(a, n, k - 1, [r |-> (st.r * Base + a[k]) % n,
                                q |-> <<(st.r * Base + a[k]) \div n>> \o st.q])
    ELSE Trim(st.q)

MagOver(a, n) == OverFrom(a, n, Len(a), [r |-> 0, q |-> <<>>])

\* one step of Newton's iteration for the square root of a: (x + a \div x) \div 2
SqrtStep(a, x) == MagOver(MagAdd(x, MagDiv(a, x)), 2)

\* Newton's iteration from an x that is not below the root of a, where y is
\* the step from x: the steps go down until they reach the floor of the root
RECURSIVE SqrtFrom(_, _, _)
SqrtFrom(a, x, y) == IF MagLt(y, x) THEN SqrtFrom(a, y, SqrtStep(a, y)) ELSE x

\* a whole number times a power of the base that is not below the root of
\* a # 0 and not above twice the root
SqrtAbove(a) ==
    ShiftUp(MagOf((IF Len(a) % 2 = 1 THEN 1 ELSE 100)
                    * (CHOOSE r \in 1 .. 100 :
                          (r - 1) * (r - 1) <= a[Len(a)] /\ a[Len(a)] < r * r)),
            (Len(a) - 1) \div 2)

SqrtBelow(a, x) == Having(<<x>>, SqrtFrom(a, x, SqrtStep(a, x)))

\* floor of the square root of a
MagSqrt(a) == IF a = <<>> THEN <<>> ELSE SqrtBelow(a, SqrtAbove(a))

Fx(neg, mag) == [mag |-> mag, neg |-> neg /\ mag # <<>>]

FxZero == Fx(FALSE, <<>>)

FxOne == Fx(FALSE, UnitMag)

FxOfInt(n) == Fx(n < 0, ShiftUp(MagOf(Abs(n)), Places))

\* the fraction f, truncated to twelve places
FxOfFrac(f) == Fx(f.num < 0, MagDiv(ShiftUp(MagOf(Abs(f.num)), Places), MagOf(f.den)))

FxNeg(x) == Fx(~x.neg, x.mag)

FxAbs(x) == Fx(FALSE, x.mag)

FxAdd(x, y) ==
    IF x.neg = y.neg THEN Fx(x.neg, MagAdd(x.mag, y.mag))
    ELSE IF MagLt(x.mag, y.mag) THEN Fx(y.neg, MagSub(y.mag, x.mag))
    ELSE Fx(x.neg, MagSub(x.mag, y.mag))

FxSub(x, y) == FxAdd(x, FxNeg(y))

\* 0 * y is 0 for every finite y
FxMul(x, y) ==
    IF x.mag = <<>> \/ y.mag = <<>> THEN FxZero
    ELSE Fx(x.neg # y.neg, ShiftDown(MagMul(x.mag, y.mag), Places))

\* x / y for y # 0
FxDiv(x, y) ==
    IF x.mag = <<>> THEN FxZero
    ELSE Fx(x.neg # y.neg, MagDiv(ShiftUp(x.mag, Places), y.mag))

\* x / n for an integer 0 < n < Base
FxOver(x, n) == IF x.mag = <<>> THEN FxZero ELSE Fx(x.neg, MagOver(x.mag, n))

FxLt(x, y) ==
    IF x.neg # y.neg THEN x.neg
    ELSE IF x.neg THEN MagLt(y.mag, x.mag)
    ELSE MagLt(x.mag, y.mag)

FxMin(x, y) == Having(<<x, y>>, IF FxLt(y, x) THEN y ELSE x)

\* Math.sqrt for x >= 0
FxSqrt(x) == IF x.mag = <<>> THEN FxZero ELSE Fx(FALSE, MagSqrt(ShiftUp(x.mag, Places)))

\* one half in units of 10^-12
HalfMag == <<0, 0, Base \div 2>>

\* the integer nearest to x, for |x| < 2^31
Nearest(x) ==
    (IF x.neg THEN -1 ELSE 1) * ValueOf(ShiftDown(MagAdd(x.mag, HalfMag), Places))

\* the fraction with this denominator nearest to x
NearestFrac(x, den) == Frac(Nearest(FxMul(x, FxOfInt(den))), den)

\* Math.PI
FxPi == Fx(FALSE, <<3590, 9265, 1415, 3>>)

FxHalfPi == FxOver(FxPi, 2)

\* term * d2 / ((n + 1) * (n + 2))
NextTerm(term, d2, n) == FxOver(FxMul(term, d2), (n + 1) * (n + 2))

\* sum and the terms after term, more of them, each the opposite of NextTerm
\* of the one before
RECURSIVE TermsFrom(_, _, _, _, _)
TermsWith(sum, term, d2, n, more) == TermsFrom(FxAdd(sum, term), term, d2, n, more)

TermsFrom(sum, term, d2, n, more) ==
    IF <<sum, term>> = <<sum, term>> /\ more > 0
    THEN TermsWith(sum, FxNeg(NextTerm(term, d2, n)), d2, n + 2, more - 1)
    ELSE sum

\* first - t1 + t2 - ... + t6, each term NextTerm of the one before: the
\* Taylor series of sine (first = d, n = 1) and of cosine (first = 1, n = 0)
\* with d2 = d * d.  For d within pi/4 of 0 the term after t6 is 0 in twelve
\* places
Series(first, d2, n) == TermsFrom(first, first, d2, n, 6)

\* value, or the opposite
Signed(value, opposite) == IF opposite THEN FxNeg(value) ELSE value

\* the sine (part = 0) or the cosine (part = 1) of d, or the opposite of
\* the one (part = 2) or the other (part = 3)
SinAbout(d, part) ==
    Having(<<d>>,
           Signed(Series(IF part % 2 = 0 THEN d ELSE FxOne, FxMul(d, d), 1 - (part % 2)),
                  part >= 2))

\* the sine of x + turns * pi/2, where q is the multiple of pi/2 nearest to
\* x: x is q * pi/2 and d more
SinNear(x, q, turns) ==
    Having(<<q>>, SinAbout(FxSub(x, FxMul(FxOfInt(q), FxHalfPi)), (q + turns) % 4))

\* the sine of x + turns * pi/2
SinOf(x, turns) == Having(<<x>>, SinNear(x, Nearest(FxDiv(x, FxHalfPi)), turns))

\* Math.sin
FxSin(x) == SinOf(x, 0)

\* Math.cos
FxCos(x) == SinOf(x, 1)

\* Math.atan at 0, 1/4, 1/2, 3/4 and 1
AtanOfQuarters ==
    <<FxZero, Fx(FALSE, <<3127, 7866, 2449>>), Fx(FALSE, <<9001, 4760, 4636>>),
      Fx(FALSE, <<8793, 110, 6435>>), FxOver(FxPi, 4)>>

\* sum and the terms after power / (n - 2), more of them: the next power is
\* the opposite of power * w2
RECURSIVE PowersFrom(_, _, _, _, _)
PowersWith(sum, power, w2, n, more) ==
    PowersFrom(FxAdd(sum, FxOver(power, n)), power, w2, n, more)

PowersFrom(sum, power, w2, n, more) ==
    IF <<sum, power>> = <<sum, power>> /\ more > 0
    THEN PowersWith(sum, FxNeg(FxMul(power, w2)), w2, n + 2, more - 1)
    ELSE sum

\* w - w^3/3 + w^5/5 - ... + w^13/13, the series of the arc tangent: for w
\* within 1/8 of 0 the next term is 0 in twelve places
AtanSeries(w) == Having(<<w>>, PowersFrom(w, w, FxMul(w, w), 1, 6))

\* (z - c) / (1 + z * c)
Reduced(z, c) == FxDiv(FxSub(z, c), FxAdd(FxOne, FxMul(z, c)))

\* atan z = atan c + atan((z - c) / (1 + z * c)) for c = quarters / 4
AtanNear(z, quarters) ==
    Having(<<quarters>>,
           FxAdd(AtanOfQuarters[quarters + 1],
                 AtanSeries(Reduced(z, FxOver(FxOfInt(quarters), 4)))))

\* Math.atan for 0 <= z <= 1, about the c among 0, 1/4, 1/2, 3/4 and 1 that
\* is nearest to z
FxAtan(z) == Having(<<z>>, AtanNear(z, Nearest(Fx(FALSE, MagTimes(z.mag, 4)))))

\* the angle of (x, y) from t, the arc tangent of the lesser of |x| and |y|
\* over the greater
Unfolded(t, y, x) ==
    Having(<<t>>,
           Signed(IF MagLt(x.mag, y.mag)
                  THEN IF x.neg THEN FxAdd(FxHalfPi, t) ELSE FxSub(FxHalfPi, t)
                  ELSE IF x.neg THEN FxSub(FxPi, t) ELSE t,
                  y.neg))

\* Math.atan2(y, x), in (-pi, pi]
FxAtan2(y, x) ==
    Having(<<y, x>>,
           IF y.mag = <<>> /\ x.mag = <<>> THEN FxZero
           ELSE Unfolded(FxAtan(IF MagLt(x.mag, y.mag) THEN FxDiv(FxAbs(x), FxAbs(y))
                                ELSE FxDiv(FxAbs(y), FxAbs(x))),
                         y, x))

----------------------------------------------------------------------------
(* getPositionAtTime and checkConjunctions on generated objects, whose     *)
(* elements are fractions: a in kilometres, the angles in units of pi, n   *)
(* in radians per second                                                   *)

\* an angle in radians
Radians(angle) == FxMul(FxOfFrac(angle), FxPi)

\* M = M0 + n * t
MeanAnomaly(el, t) == FxAdd(Radians(el.M0), FxOfFrac(FMul(el.n, Frac(t, 1))))

\* E = M + e * Math.sin(E), the body of the loop of getPositionAtTime
KeplerStep(M, e, E) == FxAdd(M, FxMul(e, FxSin(E)))

\* for (let k = 0; k < 5; k++): E after the iterations from the k-th on
RECURSIVE KeplerLoop(_, _, _, _)
KeplerLoop(M, e, E, k) ==
    IF E = E /\ k < KeplerIterations THEN KeplerLoop(M, e, KeplerStep(M, e, E), k + 1) ELSE E

\* v = 2 * Math.atan2(Math.sqrt(1 + e) * Math.sin(E / 2),
\*                    Math.sqrt(1 - e) * Math.cos(E / 2))
TrueAnomalyAt(e, E) ==
    FxMul(FxOfInt(2),
          FxAtan2(FxMul(FxSqrt(FxAdd(FxOne, e)), FxSin(FxOver(E, 2))),
                  FxMul(FxSqrt(FxSub(FxOne, e)), FxCos(FxOver(E, 2)))))

\* r = a * (1 - e * Math.cos(E))
RadiusAt(a, e, E) == FxMul(a, FxSub(FxOne, FxMul(e, FxCos(E))))

\* xx, yy and zz from r and the cosines and sines of O, w + v and i
Eci(r, cosO, sinO, cosU, sinU, cosI, sinI) ==
    Having(<<r, cosO, sinO, cosU, sinU, cosI, sinI>>,
           [x |-> FxMul(r, FxSub(FxMul(cosO, cosU), FxMul(FxMul(sinO, sinU), cosI))),
            y |-> FxMul(r, FxAdd(FxMul(sinO, cosU), FxMul(FxMul(cosO, sinU), cosI))),
            z |-> FxMul(r, FxMul(sinI, sinU))])

\* the position at the distance r, where u is w + v
Turned(r, O, u, i) ==
    Having(<<r, O, u, i>>, Eci(r, FxCos(O), FxSin(O), FxCos(u), FxSin(u), FxCos(i), FxSin(i)))

\* the position at the eccentric anomaly E
Placed(el, e, E) ==
    Having(<<E>>,
           Turned(RadiusAt(FxOfFrac(el.a), e, E), Radians(el.O),
                  FxAdd(Radians(el.w), TrueAnomalyAt(e, E)), Radians(el.i)))

\* the position at the mean anomaly M
Solved(el, e, M) == Having(<<e, M>>, Placed(el, e, KeplerLoop(M, e, M, 0)))

\* getPositionAtTime(obj, t) in kilometres, to twelve places
PositionAtTime(obj, t) ==
    Solved(obj.elements, FxOfFrac(obj.elements.e), MeanAnomaly(obj.elements, t))

\* the objects of objs, each with its position at time t
PositionsAt(objs, t) ==
    [k \in 1 .. Len(objs) |-> [obj |-> objs[k], pos |-> PositionAtTime(objs[k], t)]]

Square(x) == Having(<<x>>, FxMul(x, x))

\* Math.pow(p.x - q.x, 2) + Math.pow(p.y - q.y, 2) + Math.pow(p.z - q.z, 2)
DistanceSquared(p, q) ==
    FxAdd(FxAdd(Square(FxSub(p.x, q.x)), Square(FxSub(p.y, q.y))), Square(FxSub(p.z, q.z)))

\* the pair under dist < 800 with its dist, or nothing.  Math.sqrt is
\* increasing, so the test on dist is the test on its square.
PairIfNear(sat, deb, squared) ==
    Having(<<squared>>,
           IF FxLt(squared, FxOfInt(ProximityKm * ProximityKm))
           THEN <<[sat |-> sat, deb |-> deb, dist |-> FxSqrt(squared)]>>
           ELSE <<>>)

\* sats.forEach(sat => debris.forEach(deb => ...)): the pairs in the order of
\* the loops, each that passes dist < 800 with its dist
PairsAt(sats, debris) ==
    [p \in 1 .. Len(sats) * Len(debris) |->
        PairIfNear(sats[((p - 1) \div Len(debris)) + 1].obj,
             debris[((p - 1) % Len(debris)) + 1].obj,
             DistanceSquared(sats[((p - 1) \div Len(debris)) + 1].pos,
                             debris[((p - 1) % Len(debris)) + 1].pos))]

\* Math.min(0.99, Math.min(1, 500 / dist) * (0.8 + Math.random() * 0.4)),
\* Math.random() = rnd / RandDen
MlProbAt(dist, rnd) ==
    FxMin(FxOfFrac(ProbCap),
          FxMul(FxMin(FxOne, IF dist.mag = <<>> THEN FxOne ELSE FxDiv(FxOfInt(CloseRangeKm), dist)),
                FxOfFrac(FAdd(JitterBase, FMul(Frac(rnd, RandDen), JitterSpan)))))

\* the risk of mlProb
RiskAt(mlProb) ==
    IF FxLt(FxOfFrac(HighAbove), mlProb) THEN HIGH
    ELSE IF FxLt(FxOfFrac(MediumAbove), mlProb) THEN MEDIUM
    ELSE LOW

\* if (risk !== RiskLevel.LOW) conjunctions.push(...): what is pushed, the
\* conjunction with dist to six places and mlProb to eight, or nothing; the
\* risk is that of mlProb before it is written to eight places
PushedAt(pair, t, draw, mlProb, risk) ==
    Having(<<risk>>,
           IF risk # LOW
           THEN <<MkConjunction(pair.sat, pair.deb, t, NearestFrac(pair.dist, 10 ^ 6),
                                NearestFrac(mlProb, 10 ^ 8), risk, draw.tti)>>
           ELSE <<>>)

\* let risk = ...: the risk of mlProb, and the push
ClassifiedAt(pair, t, draw, mlProb) ==
    Having(<<mlProb>>, PushedAt(pair, t, draw, mlProb, RiskAt(mlProb)))

\* the body of the inner forEach under dist < 800
PushIfRiskyAt(pair, t, draw) == ClassifiedAt(pair, t, draw, MlProbAt(pair.dist, draw.jitter))

\* what the body of the inner forEach pushes for each pair of the loops
PushesAt(pairs, t, draw) ==
    [p \in 1 .. Len(pairs) |->
        IF pairs[p] = <<>> THEN <<>> ELSE PushIfRiskyAt(pairs[p][1], t, draw)]

\* the pairs of PairsAt over the positions at, satellites against debris
ClosePairsAt(at) ==
    Having(<<at>>,
           PairsAt(SelectSeq(at, LAMBDA p : p.obj.type = "SATELLITE"),
                   SelectSeq(at, LAMBDA p : p.obj.type = "DEBRIS")))

\* conjunctions.sort((a, b) => b.probability - a.probability).slice(0, 5),
\* where conjunctions holds the pushes in the order of the loops
ReturnedAt(pushed) ==
    TopAlerts(SortByProbability([k \in 1 .. Len(pushed) |-> pushed[k][1]]))

\* the array checkConjunctions returns once the loops have found pairs, when
\* every Math.random() call of a pushed pair has the outcomes of draw
ConjunctionsAt(pairs, t, draw) ==
    Having(<<pairs>>, ReturnedAt(SelectSeq(PushesAt(pairs, t, draw), LAMBDA c : c # <<>>)))

\* checkConjunctions(objs, t)
CheckConjunctionsAt(objs, t, draw) == ConjunctionsAt(ClosePairsAt(PositionsAt(objs, t)), t, draw)
----------------------------------------------------------------------------
(* The host: App (src/App.tsx) with its three effects and two handlers,    *)
(* and the button of ManeuverPanel                                         *)
(*                                                                         *)
(* React.  A setter called from an effect or from a timer callback queues  *)
(* an update (pending); React renders later and commits every queued       *)
(* update at once (Render); the effects whose dependencies changed run     *)
(* after the commit, on their own (FlushEffects): the cleanup of the       *)
(* polling effect clears the interval and a new one is set, whose callback *)
(* closes over the objects and the time of that render (polling).  Until   *)
(* then the old interval stays armed with the old values.  The callback    *)
(* of the planner's setTimeout queues its plan like the other timers, so   *)
(* the button of the last render can be clicked before the plan is shown.  *)
(* The updates of a click are rendered before the handler's event ends:    *)
(* a handler is one step.  Updates of one state are applied in the order   *)
(* of their calls, so a plan still queued when an alert is clicked is      *)
(* followed by the null of handleSelectAlert and is never shown.           *)
(*                                                                         *)
(* Time in the browser is counted in milliseconds by two timers: frameIn   *)
(* to the next animation frame and intervalIn to the setInterval callback  *)
(* that is armed.  React's work takes no time on this scale, and time      *)
(* passes when none of it is left; callbacks due at that moment run before *)
(* it, between its steps or after it.  The setTimeout callbacks of the     *)
(* planner all have the same delay of 1200 ms, so they run in the order    *)
(* they were scheduled; any number of operator actions fits in between.    *)
(*                                                                         *)
(* The objects state holds what generateMockObjects returned, and a pass   *)
(* is CheckConjunctionsAt on it.                                           *)

IntervalMs == 5000

FrameStep == 10

\* the frame loop is followed for this many frames
MaxFrames == 2

\* the callbacks of setTimeout pending at one moment
MaxTimeouts == 2

\* milliseconds from the request of an animation frame to its callback: at
\* once (before React gets to the work it has), a frame of a 60 Hz display, a
\* throttled frame loop, and a pause of the frame loop as long as the
\* polling interval
FrameGaps == {0, 16, 2000, 5000}

\* the array generateMockObjects returns when the draws of its satellites and
\* of its debris iterations have these outcomes: the satellites in the order
\* of sats.forEach, then the debris in the order of the for loop
GenerateMockObjects(satDraws, debDraws) ==
    [k \in 1 .. Len(satDraws) + Len(debDraws) |->
        IF k <= Len(satDraws)
        THEN MockSatellite(k - 1, satDraws[k])
        ELSE MockDebris(k - Len(satDraws) - 1, debDraws[k - Len(satDraws)])]

\* Two outcomes of generateMockObjects.  In both, SENTINEL-1 is at 6993 km on
\* +x, NONAME-X at 7014 km on -y, the other satellites at 6993 km on +y, and
\* the debris iterations take SingleDebrisDraw but for the last ones.  In the
\* first the last debris object is on a circular polar orbit, at 7770 km on
\* +x at t = 0 (777 km from SENTINEL-1) and leaving the equatorial plane at
\* 0.00117 rad/s: 785 km away at t = 10 and beyond the threshold at t = 20.
\* In the second the last two are at 7000 km on +x and at 7100 km on -y, 7 km
\* from SENTINEL-1 and 86 km from NONAME-X, and stay within 100 km of them
\* over the frames followed
HostPopulations ==
    LET onPlusX == <<Frac(129, 200), Zero, Zero, Zero, Zero, Zero, Zero>>
        onMinusY == <<Frac(129, 200), Frac(1, 10), Zero, Zero, Frac(1, 4), Frac(1, 2),
                      Frac(1, 2)>>
        onPlusY == <<Frac(129, 200), Zero, Zero, Zero, Frac(1, 4), Zero, Zero>>
        sats == <<onPlusX, onMinusY, onPlusY, onPlusY, onPlusY>>
        polar == <<Frac(1, 2), Frac(999, 1000), Zero, Frac(1, 2), Zero, Zero, Zero,
                   Frac(9, 10)>>
        nearPlusX == <<Frac(1, 2), Frac(229, 1000), Zero, Zero, Zero, Zero, Zero, Zero>>
        nearMinusY == <<Frac(3, 5), Frac(329, 1000), Zero, Zero, Zero, Frac(1, 4),
                        Frac(1, 2), Zero>>
        single == [i \in 1 .. DebrisIterations |-> SingleDebrisDraw(i - 1)]
    IN  {GenerateMockObjects(sats, [single EXCEPT ![DebrisIterations] = polar]),
         GenerateMockObjects(sats, [single EXCEPT ![DebrisIterations - 1] = nearPlusX,
                                                  ![DebrisIterations] = nearMinusY])}

\* the two Math.random() outcomes each close pair of a host pass takes
HostDraws == {[jitter |-> 0, tti |-> 0], [jitter |-> 5, tti |-> 4]}

\* the Math.random() outcomes of a plan the host asks for
HostPlannerDraws == {[k \in 1 .. 5 |-> 0], [k \in 1 .. 5 |-> 128]}

\* the values the time state takes over the frames followed
SimulationTimes == {k * FrameStep : k \in 0 .. MaxFrames}

\* the results of checkConjunctions at t over the pairs its loops find, one
\* for each of HostDraws
PassesOver(pairs, t) == Having(<<pairs>>, {ConjunctionsAt(pairs, t, d) : d \in HostDraws})

\* the results checkConjunctions(objs, t) can have
PassesAt(objs, t) == PassesOver(ClosePairsAt(PositionsAt(objs, t)), t)

\* PassesAt of the populations at the simulation times, computed once
KnownPasses == [objs \in HostPopulations, t \in SimulationTimes |-> PassesAt(objs, t)]

\* checkConjunctions(objs, t) as the host calls it
HostPasses(objs, t) ==
    IF <<objs, t>> \in DOMAIN KnownPasses THEN KnownPasses[objs, t] ELSE PassesAt(objs, t)

Mounted == pc # "mounting"

\* pc after a step that neither makes a pass nor renders: a pass made stays
\* the last thing done until React has rendered
AfterStep == IF pc = "passed" THEN "passed" ELSE "running"

InitHost ==
    /\ pc = "mounting"
    /\ objects = <<>>
    /\ time = 0
    /\ draws = <<>>
    /\ result = <<>>
    /\ outcome = "none"
    /\ HostIdle
    /\ FieldIdle /\ ManeuverIdle /\ PropagatorIdle /\ GeneratorIdle /\ ClassifierIdle

\* The three effects of the first commit.  objs is generated and the initial
\* assessment made, setObjects and setAlerts queue; the first frame is
\* requested; the interval is set by the render in which objects is [] and
\* time is 0
Mount ==
    /\ pc = "mounting"
    /\ \E objs \in HostPopulations :
          \E initialAlerts \in HostPasses(objs, 0) :
              /\ result' = initialAlerts
              /\ pending' = [pending EXCEPT !.objects = <<objs>>,
                                            !.alerts = <<initialAlerts>>]
    /\ frameIn' \in FrameGaps
    /\ polling' = <<[objects |-> objects, time |-> time]>>
    /\ intervalIn' = IntervalMs
    /\ sincePass' = 0
    /\ pc' = "passed"
    /\ UNCHANGED <<objects, time, draws, outcome, alerts, selectedAlert, appManeuver,
                   plannedFor, timeouts, effects, sample, fieldVars, maneuverVars,
                   propagatorVars, population>>

\* React renders and commits the queued updates: the last value set for
\* objects, for alerts and for maneuver, every t => t + 10 for time.  The polling effect is
\* to run again when objects or time is another value than in the last render
Render ==
    /\ Mounted
    /\ pending # NoUpdates
    /\ ~effects
    /\ objects' = IF pending.objects # <<>> THEN pending.objects[1] ELSE objects
    /\ alerts' = IF pending.alerts # <<>> THEN pending.alerts[1] ELSE alerts
    /\ time' = time + pending.ticks * FrameStep
    /\ effects' = (pending.ticks > 0
                     \/ (IF pending.objects # <<>> THEN pending.objects[1] # objects
                         ELSE FALSE))
    /\ appManeuver' = IF pending.maneuver # <<>> THEN <<pending.maneuver[1].plan>>
                       ELSE appManeuver
    /\ plannedFor' = IF pending.maneuver # <<>> THEN <<pending.maneuver[1].alert>>
                      ELSE plannedFor
    /\ pending' = NoUpdates
    /\ pc' = IF pc = "passed" THEN "shown" ELSE "running"
    /\ UNCHANGED <<draws, result, outcome, selectedAlert, timeouts, polling, frameIn,
                   intervalIn, sincePass, sample, fieldVars, maneuverVars,
                   propagatorVars, population>>

\* the polling effect after a commit that changed objects or time: its
\* cleanup clears the interval, and a new interval is set whose callback holds
\* the objects and the time of this render
FlushEffects ==
    /\ Mounted
    /\ effects
    /\ polling' = <<[objects |-> objects, time |-> time]>>
    /\ intervalIn' = IntervalMs
    /\ effects' = FALSE
    /\ pc' = AfterStep
    /\ UNCHANGED <<detectorVars, time, outcome, alerts, selectedAlert, appManeuver,
                   plannedFor, timeouts, pending, frameIn, sincePass, sample, fieldVars,
                   maneuverVars, propagatorVars, population>>

\* time passes up to the next timer that is due
Elapse ==
    /\ Mounted
    /\ pending = NoUpdates
    /\ ~effects
    /\ frameIn > 0
    /\ intervalIn > 0
    /\ frameIn' = frameIn - Min(frameIn, intervalIn)
    /\ intervalIn' = intervalIn - Min(frameIn, intervalIn)
    /\ sincePass' = sincePass + Min(frameIn, intervalIn)
    /\ pc' = "running"
    /\ UNCHANGED <<detectorVars, time, outcome, alerts, selectedAlert, appManeuver,
                   plannedFor, timeouts, pending, effects, polling, sample, fieldVars,
                   maneuverVars, propagatorVars, population>>

\* loop, the callback of requestAnimationFrame: setTime(t => t + 10) queues
\* and the next frame is requested
Frame ==
    /\ Mounted
    /\ frameIn = 0
    /\ time + pending.ticks * FrameStep < MaxFrames * FrameStep
    /\ pending' = [pending EXCEPT !.ticks = @ + 1]
    /\ frameIn' \in FrameGaps
    /\ pc' = AfterStep
    /\ UNCHANGED <<detectorVars, time, outcome, alerts, selectedAlert, appManeuver,
                   plannedFor, timeouts, effects, polling, intervalIn, sincePass, sample,
                   fieldVars, maneuverVars, propagatorVars, population>>

\* the callback of setInterval, on the objects and the time it closed over:
\* setAlerts is called only with a non-empty result
Poll ==
    /\ Mounted
    /\ polling # <<>>
    /\ intervalIn = 0
    /\ \E newAlerts \in HostPasses(polling[1].objects, polling[1].time) :
          /\ result' = newAlerts
          /\ pending' = IF Len(newAlerts) > 0 THEN [pending EXCEPT !.alerts = <<newAlerts>>]
                        ELSE pending
    /\ intervalIn' = IntervalMs
    /\ sincePass' = 0
    /\ pc' = "passed"
    /\ UNCHANGED <<objects, draws, time, outcome, alerts, selectedAlert, appManeuver,
                   plannedFor, timeouts, effects, polling, frameIn, sample, fieldVars,
                   maneuverVars, propagatorVars, population>>

\* handleSelectAlert, from a click on an alert of the feed: setManeuver(null)
\* comes after a plan that is still queued
SelectAlert ==
    /\ Mounted
    /\ \E k \in 1 .. Len(alerts) : selectedAlert' = <<alerts[k]>>
    /\ appManeuver' = <<>>
    /\ plannedFor' = <<>>
    /\ pending' = [pending EXCEPT !.maneuver = <<>>]
    /\ pc' = AfterStep
    /\ UNCHANGED <<detectorVars, time, outcome, alerts, timeouts, effects, polling,
                   frameIn, intervalIn, sincePass, sample, fieldVars, maneuverVars,
                   propagatorVars, population>>

\* ManeuverPanel renders the button when alert is set and maneuver is null
ButtonShown == selectedAlert # <<>> /\ appManeuver = <<>>

\* handleGenerateManeuver, from a click on the button: the callback captures
\* the selectedAlert of this render
RequestManeuver ==
    /\ Mounted
    /\ ButtonShown
    /\ Len(timeouts) < MaxTimeouts
    /\ timeouts' = IF selectedAlert # <<>> THEN Append(timeouts, selectedAlert[1])
                   ELSE timeouts
    /\ pc' = AfterStep
    /\ UNCHANGED <<detectorVars, time, outcome, alerts, selectedAlert, appManeuver,
                   plannedFor, pending, effects, polling, frameIn, intervalIn, sincePass,
                   sample, fieldVars, maneuverVars, propagatorVars, population>>

\* the callback of setTimeout: the plan for the captured alert is computed
\* and setManeuver(plan) queues
CompletePlan ==
    /\ Mounted
    /\ timeouts # <<>>
    /\ \E rs \in HostPlannerDraws, now \in NowSet :
          pending' = [pending EXCEPT !.maneuver =
                         <<[plan |-> CalculateManeuver(Head(timeouts), rs, now),
                            alert |-> Head(timeouts)]>>]
    /\ timeouts' = Tail(timeouts)
    /\ pc' = AfterStep
    /\ UNCHANGED <<detectorVars, time, outcome, alerts, selectedAlert, appManeuver,
                   plannedFor, effects, polling, frameIn, intervalIn, sincePass, sample,
                   fieldVars, maneuverVars, propagatorVars, population>>

NextHost ==
    \/ Mount \/ Render \/ FlushEffects \/ Elapse \/ Frame \/ Poll
    \/ SelectAlert \/ RequestManeuver \/ CompletePlan

SpecHost == InitHost /\ [][NextHost]_vars

\* the host with no operator at the console: React, the frame loop and the
\* polling effect alone
NextPolling == Mount \/ Render \/ FlushEffects \/ Elapse \/ Frame \/ Poll

SpecPolling == InitHost /\ [][NextPolling]_vars

----------------------------------------------------------------------------
(* Claims about the host *)

\* C21: the host never lets more than 5000 ms pass without a detection pass,
\* whatever the gaps between the frames
C21_PassWithinInterval == sincePass <= IntervalMs

\* C22: once a detection pass, initial or periodic, is made and rendered,
\* alerts is the result of that pass, also when the result is empty
C22_AlertsAreLastPass ==
    (pc = "shown" \/ (pc = "passed" /\ pending = NoUpdates)) => alerts = result

\* C23: a displayed maneuver was planned from the selected alert and targets
\* its objectA
C23_ManeuverForSelection ==
    appManeuver # <<>> =>
        /\ selectedAlert # <<>>
        /\ appManeuver[1].targetId = selectedAlert[1].objectA
        /\ plannedFor = selectedAlert

\* C29: selecting an alert resets the maneuver to null, a request schedules
\* a callback only when an alert is selected, and a displayed maneuver is
\* never replaced by another plan
C29_ManeuverStable ==
    [][ /\ selectedAlert' # selectedAlert => appManeuver' = <<>>
        /\ Len(timeouts') > Len(timeouts) => selectedAlert # <<>>
        /\ (appManeuver # <<>> /\ appManeuver' # <<>>) => appManeuver' = appManeuver
      ]_vars

====
